---- MODULE Spec2Model ----
(***************************************************************************)
(* A model of the twine-data codec: the LEB128 codec, the streaming        *)
(* Encoder (ser.rs), the shallow Decoder (deser.rs) and the deep Value     *)
(* reader/writer (value.rs).                                               *)
(*                                                                         *)
(* Numbers.  A Rust u64 is modelled at its true width as four 16-bit limbs *)
(* <<l0, l1, l2, l3>>, least significant first (TLC's own integers are     *)
(* 32 bits wide).  An i64 is the same bit pattern read in two's complement.*)
(* A byte is a natural number in 0..255; a blob is a sequence of bytes.    *)
(* Sequences are 1-based, so the byte at offset o is bs[o + 1].            *)
(*                                                                         *)
(* Builds.  Rust integer overflow panics when overflow checks are on (the  *)
(* debug profile) and wraps when they are off (the release profile);       *)
(* debug_assert! is checked only in the former.  The variable `build`      *)
(* picks the profile once, at Init.                                        *)
(***************************************************************************)
EXTENDS Integers, Sequences, FiniteSets, TLC

VARIABLES build, lebN, lebBuf, lebDec, blob, call, enc, stage, returned, lastOp

vars == <<build, lebN, lebBuf, lebDec, blob, call, enc, stage, returned, lastOp>>

lebVars == <<lebN, lebBuf, lebDec>>

decVars == <<blob, call>>

encVars == <<enc, stage, returned, lastOp>>

Builds == {"debug", "release"}

-----------------------------------------------------------------------------
(* u64 arithmetic on 16-bit limbs                                          *)

Limb == 2 ^ 16

U64Zero == <<0, 0, 0, 0>>

\* a natural number below 2^31 as a u64
FromNat(n) == <<n % Limb, n \div Limb, 0, 0>>

\* the u64 fits a model integer (it is below 2^31)
IsSmall(x) == x[3] = 0 /\ x[4] = 0 /\ x[2] < 32768

ToNat(x) == x[1] + x[2] * Limb

U64Max == <<65535, 65535, 65535, 65535>>

I64Max == <<65535, 65535, 65535, 32767>>

U32Max == <<65535, 65535, 0, 0>>

\* a + b on 64 bits: the wrapped sum and the carry out of bit 63
AddC(a, b) ==
    LET s1 == a[1] + b[1]
        s2 == a[2] + b[2] + (s1 \div Limb)
        s3 == a[3] + b[3] + (s2 \div Limb)
        s4 == a[4] + b[4] + (s3 \div Limb)
    IN  [val |-> <<s1 % Limb, s2 % Limb, s3 % Limb, s4 % Limb>>,
         carry |-> s4 \div Limb]

\* a - b on 64 bits: the wrapped difference and the borrow (1 iff a < b)
SubB(a, b) ==
    LET d1 == a[1] - b[1]
        b1 == IF d1 < 0 THEN 1 ELSE 0
        d2 == a[2] - b[2] - b1
        b2 == IF d2 < 0 THEN 1 ELSE 0
        d3 == a[3] - b[3] - b2
        b3 == IF d3 < 0 THEN 1 ELSE 0
        d4 == a[4] - b[4] - b3
        b4 == IF d4 < 0 THEN 1 ELSE 0
    IN  [val |-> <<d1 + b1 * Limb, d2 + b2 * Limb, d3 + b3 * Limb, d4 + b4 * Limb>>,
         borrow |-> b4]

Lt(a, b) == SubB(a, b).borrow = 1

Le(a, b) == ~Lt(b, a)

\* x >> 7
Shr7(x) ==
    <<(x[1] \div 128) + (x[2] % 128) * 512,
      (x[2] \div 128) + (x[3] % 128) * 512,
      (x[3] \div 128) + (x[4] % 128) * 512,
      x[4] \div 128>>

\* 2^k as a model integer, 0 <= k <= 15
Pow2Nat(k) == 2 ^ k

\* (v as u64) << k for a byte v and 0 <= k <= 63; bits above bit 63 are dropped
Shl(v, k) ==
    LET q == k \div 16
        prod == v * Pow2Nat(k % 16)
    IN  [i \in 1..4 |->
            IF i = q + 1 THEN prod % Limb
            ELSE IF i = q + 2 THEN prod \div Limb
            ELSE 0]

RECURSIVE BitOr(_, _)
\* bitwise or of two naturals
BitOr(a, b) ==
    IF a = 0 THEN b
    ELSE IF b = 0 THEN a
    ELSE (IF a % 2 = 1 \/ b % 2 = 1 THEN 1 ELSE 0) + 2 * BitOr(a \div 2, b \div 2)

\* a | b
Or64(a, b) == <<BitOr(a[1], b[1]), BitOr(a[2], b[2]), BitOr(a[3], b[3]), BitOr(a[4], b[4])>>

\* 2^k as a u64, 0 <= k <= 63
Pow2(k) == Shl(1, k)

-----------------------------------------------------------------------------
(* results of the decoder's operations                                     *)

Ok(v) == [tag |-> "Ok", val |-> v]

\* types.rs Error: a constant message and an offset
Err(m, o) == [tag |-> "Err", msg |-> m, off |-> o]

\* the call aborts (index out of bounds, overflow check, unreachable!, unwrap)
Panic(why) == [tag |-> "Panic", why |-> why]

\* the call never returns
Hang == [tag |-> "Hang"]

IsOk(r) == r.tag = "Ok"

IsErr(r) == r.tag = "Err"

IsPanic(r) == r.tag = "Panic"

\* no result yet
NoneYet == [tag |-> "None"]

-----------------------------------------------------------------------------
(* LEB128                                                                  *)

RECURSIVE enc_leb128(_)
\* ser.rs enc_leb128: the bytes written to buf[0..count]
enc_leb128(n) ==
    LET c == n[1] % 128
    IN  IF FromNat(c) = n
        THEN <<c>>
        ELSE <<BitOr(c, 128)>> \o enc_leb128(Shr7(n))

\* a + b with Rust's overflow behaviour for the chosen build
CheckedAdd(b, x, y) ==
    LET s == AddC(x, y)
    IN  IF s.carry = 1 /\ b = "debug"
        THEN Panic("attempt to add with overflow")
        ELSE Ok(s.val)

\* self.bs[off as usize]
ByteAt(bs, off) ==
    IF IsSmall(off) /\ ToNat(off) < Len(bs)
    THEN Ok(bs[ToNat(off) + 1])
    ELSE Panic("index out of bounds")

RECURSIVE leb128_loop_shift63(_, _, _, _, _)
\* leb128 giving up one group early (shift >= 63 instead of shift >= 64)
leb128_loop_shift63(bs, off, res, shift, n_bytes) ==
    LET n1 == n_bytes + 1
        c == ByteAt(bs, off)
    IN  IF IsPanic(c) THEN c
        ELSE LET off1 == AddC(off, FromNat(1)).val
                 cur == c.val % 128
                 res1 == Or64(res, Shl(cur, shift))
             IN  IF cur = c.val
                 THEN Ok(<<res1, n1>>)
                 ELSE IF shift + 7 >= 63
                      THEN Err("out of bound for LEB128", off1)
                      ELSE leb128_loop_shift63(bs, off1, res1, shift + 7, n1)

RECURSIVE leb128_loop(_, _, _, _, _)
\* deser.rs Decoder::leb128, one pass of the loop from (off, res, shift, n_bytes)
leb128_loop(bs, off, res, shift, n_bytes) ==
    LET n1 == n_bytes + 1
        c == ByteAt(bs, off)
    IN  IF IsPanic(c) THEN c
        ELSE LET off1 == AddC(off, FromNat(1)).val
                 cur == c.val % 128
                 res1 == Or64(res, Shl(cur, shift))
             IN  IF cur = c.val
                 THEN Ok(<<res1, n1>>)
                 ELSE IF shift + 7 >= 64
                      THEN Err("out of bound for LEB128", off1)
                      ELSE leb128_loop(bs, off1, res1, shift + 7, n1)

\* deser.rs Decoder::leb128
leb128(bs, off) == leb128_loop(bs, off, U64Zero, 0, 0)

-----------------------------------------------------------------------------
(* immediates and shallow values (types.rs, shallow_value)                 *)

\* an Int64 carries the two's complement bit pattern of the i64; a Float
\* carries the little-endian bytes of its bit pattern and their width
ImmNull == [t |-> "Null"]

ImmBool(x) == [t |-> "Bool", b |-> x]

ImmInt64(x) == [t |-> "Int64", i |-> x]

ImmFloat(x) == [t |-> "Float", f |-> x]

ImmString(x) == [t |-> "String", s |-> x]

ImmBytes(x) == [t |-> "Bytes", s |-> x]

ImmCstor0(x) == [t |-> "Cstor0", idx |-> x]

ImmRef(x) == [t |-> "Ref", p |-> x]

ImmPointer(x) == [t |-> "Pointer", p |-> x]

\* an f64 given by its 8 little-endian bytes
F64(bytes) == [w |-> 64, le |-> bytes]

\* an f32 (4 little-endian bytes) widened to f64
F32AsF64(bytes) == [w |-> 32, le |-> bytes]

SvImm(x) == [kind |-> "Imm", imm |-> x]

SvTag(x, o) == [kind |-> "Tag", tag |-> x, off |-> o]

\* ArrayCursor / MapCursor { dec, off, n_items }
Cursor(o, n) == [off |-> o, n_items |-> n]

SvArray(c) == [kind |-> "Array", cur |-> c]

SvMap(c) == [kind |-> "Map", cur |-> c]

SvCstor(x, c) == [kind |-> "Cstor", idx |-> x, args |-> c]

-----------------------------------------------------------------------------
(* the decoder (deser.rs); b is the build, bs the blob                     *)

\* the ? operator: continue with the value of an Ok, pass anything else on
Bind(r, F(_)) == IF IsOk(r) THEN F(r.val) ELSE r

\* `let x = ...;` followed by the code F that uses x
With(x, F(_)) == F(x)

\* deser.rs Decoder::first_byte: the (high, low) nibbles
first_byte(bs, off) ==
    Bind(ByteAt(bs, off), LAMBDA c : Ok(<<c \div 16, c % 16>>))

\* u64_with_low that leaves out the LEB128 extension
u64_with_low_inline(b, bs, off, low) == Ok(<<FromNat(low), 0>>)

\* deser.rs Decoder::u64_with_low: (value, bytes consumed after the first)
u64_with_low(b, bs, off, low) ==
    IF low < 15
    THEN Ok(<<FromNat(low), 0>>)
    ELSE Bind(CheckedAdd(b, off, FromNat(1)), LAMBDA off1 :
         Bind(leb128(bs, off1), LAMBDA rc :
         Bind(CheckedAdd(b, rc[1], FromNat(15)), LAMBDA n :
         Ok(<<n, rc[2]>>))))

\* off.checked_sub(p + 1), with the error message of the caller
BackTarget(b, off, p, msg) ==
    Bind(CheckedAdd(b, p, FromNat(1)), LAMBDA p1 :
         IF Lt(off, p1) THEN Err(msg, off) ELSE Ok(SubB(off, p1).val))

RECURSIVE deref(_, _, _)
\* deser.rs Decoder::deref
deref(b, bs, off) ==
    Bind(first_byte(bs, off), LAMBDA hl :
         IF hl[1] = 15
         THEN Bind(u64_with_low(b, bs, off, hl[2]), LAMBDA pn :
              Bind(BackTarget(b, off, pn[1], "pointer underflow"), LAMBDA target :
                   IF target = off THEN Hang ELSE deref(b, bs, target)))
         ELSE Ok(off))

\* deser.rs Decoder::i64_pos
i64_pos(b, bs, off, low) ==
    Bind(u64_with_low(b, bs, off, low), LAMBDA xn :
         IF Lt(I64Max, xn[1]) THEN Err("i64 overflow", off) ELSE Ok(xn[1]))

\* deser.rs Decoder::i64_neg: -(x as i64) - 1
i64_neg(b, bs, off, low) ==
    Bind(u64_with_low(b, bs, off, low), LAMBDA xn :
         IF Lt(I64Max, xn[1])
         THEN Err("i64 overflow", off)
         ELSE Ok(SubB(SubB(U64Zero, xn[1]).val, FromNat(1)).val))

\* off + k for a small k, in the build's arithmetic
OffPlus(b, off, k) == CheckedAdd(b, off, FromNat(k))

\* &self.bs[start as usize..(start as usize + len as usize)]
Slice(bs, start, len) ==
    LET e == AddC(start, len)
    IN  IF e.carry = 0 /\ IsSmall(e.val) /\ ToNat(e.val) <= Len(bs)
        THEN Ok(SubSeq(bs, ToNat(start) + 1, ToNat(e.val)))
        ELSE Panic("slice index out of range")

IsCont(c) == 128 <= c /\ c <= 191

RECURSIVE IsUtf8(_)
\* std::str::from_utf8 succeeds on s (the well-formed sequences of Unicode 3.9)
IsUtf8(s) ==
    LET n == Len(s)
        c1 == s[1]
        Rest(k) == SubSeq(s, k + 1, n)
    IN  IF \A i \in 1..n : s[i] < 128 THEN TRUE
        ELSE IF c1 < 128 THEN IsUtf8(Rest(1))
        ELSE IF 194 <= c1 /\ c1 <= 223
             THEN n >= 2 /\ IsCont(s[2]) /\ IsUtf8(Rest(2))
        ELSE IF 224 <= c1 /\ c1 <= 239
             THEN /\ n >= 3
                  /\ IsCont(s[2])
                  /\ IsCont(s[3])
                  /\ (c1 = 224 => s[2] >= 160)
                  /\ (c1 = 237 => s[2] <= 159)
                  /\ IsUtf8(Rest(3))
        ELSE IF 240 <= c1 /\ c1 <= 244
             THEN /\ n >= 4
                  /\ IsCont(s[2])
                  /\ IsCont(s[3])
                  /\ IsCont(s[4])
                  /\ (c1 = 240 => s[2] >= 144)
                  /\ (c1 = 244 => s[2] <= 143)
                  /\ IsUtf8(Rest(4))
        ELSE FALSE

\* deser.rs Decoder::bytes
bytes(b, bs, off, low) ==
    Bind(u64_with_low(b, bs, off, low), LAMBDA ln :
    Bind(OffPlus(b, off, 1 + ln[2]), LAMBDA start :
         Slice(bs, start, ln[1])))

\* deser.rs Decoder::str
str(b, bs, off, low) ==
    Bind(u64_with_low(b, bs, off, low), LAMBDA ln :
    Bind(OffPlus(b, off, 1 + ln[2]), LAMBDA start :
    Bind(Slice(bs, start, ln[1]), LAMBDA s :
         IF IsUtf8(s) THEN Ok(s) ELSE Err("overflow in string", start))))

\* deser.rs Decoder::float
float(b, bs, off, low) ==
    Bind(OffPlus(b, off, 1), LAMBDA off1 :
         IF low = 0
         THEN Bind(Slice(bs, off1, FromNat(4)), LAMBDA le : Ok(F32AsF64(le)))
         ELSE IF low = 1
         THEN Bind(Slice(bs, off1, FromNat(8)), LAMBDA le : Ok(F64(le)))
         ELSE Err("expected float", off))

\* deser.rs Decoder::tag
tag(b, bs, off, low) ==
    Bind(u64_with_low(b, bs, off, low), LAMBDA tn :
         IF Lt(U32Max, tn[1])
         THEN Err("tag overflow", off)
         ELSE Bind(OffPlus(b, off, 1 + tn[2]), LAMBDA child : Ok(<<tn[1], child>>)))

\* deser.rs Decoder::array_cursor / map_cursor, which differ in the message
seq_cursor(b, bs, off, low, msg) ==
    Bind(u64_with_low(b, bs, off, low), LAMBDA ln :
         IF Lt(U32Max, ln[1])
         THEN Err(msg, off)
         ELSE Bind(OffPlus(b, off, 1 + ln[2]), LAMBDA first : Ok(Cursor(first, ln[1]))))

array_cursor(b, bs, off, low) == seq_cursor(b, bs, off, low, "Size overflow for array")

map_cursor(b, bs, off, low) == seq_cursor(b, bs, off, low, "Size overflow for dict")

\* the mk_cstor! macro of Decoder::cstor, expanded where `off` has value o
mk_cstor(idx, o, rest) ==
    IF Lt(U32Max, idx) THEN Err("cstor overflow", o) ELSE Ok(<<idx, rest>>)

\* deser.rs Decoder::cstor: (index, cursor over the arguments)
cstor(b, bs, off, high, low) ==
    IF high = 10
    THEN Bind(u64_with_low(b, bs, off, low), LAMBDA xn :
              mk_cstor(xn[1], off, Cursor(off, U64Zero)))
    ELSE IF high = 11
    THEN Bind(u64_with_low(b, bs, off, low), LAMBDA xn :
         Bind(OffPlus(b, off, 1 + xn[2]), LAMBDA arg :
              mk_cstor(xn[1], off, Cursor(arg, FromNat(1)))))
    ELSE IF high = 12
    THEN Bind(u64_with_low(b, bs, off, low), LAMBDA xn :
         Bind(OffPlus(b, off, 1 + xn[2]), LAMBDA off1 :
         Bind(leb128(bs, off1), LAMBDA nn :
              IF Lt(U32Max, nn[1])
              THEN Err("overflow in cstor arguments", off1)
              ELSE Bind(OffPlus(b, off1, nn[2]), LAMBDA off2 :
                        mk_cstor(xn[1], off2, Cursor(off2, nn[1]))))))
    ELSE Err("expected cstor", off)

\* skip that steps over the header of a one-argument variant as if it had none
skip_variant1(b, bs, off) ==
    Bind(first_byte(bs, off), LAMBDA hl :
    LET high == hl[1]
        low == hl[2]
    IN  CASE high = 0 -> OffPlus(b, off, 1)
          [] high \in {1, 2, 10, 11, 14, 15} ->
                Bind(u64_with_low(b, bs, off, low), LAMBDA xn :
                     OffPlus(b, off, 1 + xn[2]))
          [] high = 3 -> IF low = 0 THEN OffPlus(b, off, 5) ELSE OffPlus(b, off, 9)
          [] high \in {4, 5} ->
                Bind(u64_with_low(b, bs, off, low), LAMBDA ln :
                     IF Lt(U32Max, ln[1])
                     THEN Err("length overflow", off)
                     ELSE Bind(OffPlus(b, off, 1 + ln[2]), LAMBDA o1 :
                               CheckedAdd(b, o1, ln[1])))
          [] high \in {6, 7, 8} -> Err("cannot skip over array/dict/tag", off)
          [] high \in {9, 13} -> Err("tag is reserved", off)
          [] high = 12 -> Err("cannot skip over constructor", off))

\* deser.rs Decoder::skip
skip(b, bs, off) ==
    Bind(first_byte(bs, off), LAMBDA hl :
    LET high == hl[1]
        low == hl[2]
    IN  CASE high = 0 -> OffPlus(b, off, 1)
          [] high \in {1, 2, 10, 14, 15} ->
                Bind(u64_with_low(b, bs, off, low), LAMBDA xn :
                     OffPlus(b, off, 1 + xn[2]))
          [] high = 3 -> IF low = 0 THEN OffPlus(b, off, 5) ELSE OffPlus(b, off, 9)
          [] high \in {4, 5} ->
                Bind(u64_with_low(b, bs, off, low), LAMBDA ln :
                     IF Lt(U32Max, ln[1])
                     THEN Err("length overflow", off)
                     ELSE Bind(OffPlus(b, off, 1 + ln[2]), LAMBDA o1 :
                               CheckedAdd(b, o1, ln[1])))
          [] high \in {6, 7, 8} -> Err("cannot skip over array/dict/tag", off)
          [] high \in {9, 13} -> Err("tag is reserved", off)
          [] high \in {11, 12} -> Err("cannot skip over constructor", off))

\* deser.rs Decoder::get_shallow_value, after the deref, at the offset off
shallow_at(b, bs, off) ==
    Bind(first_byte(bs, off), LAMBDA hl :
    LET high == hl[1]
        low == hl[2]
    IN  CASE high = 0 ->
                IF low = 2 THEN Ok(SvImm(ImmNull))
                ELSE IF low = 0 THEN Ok(SvImm(ImmBool(FALSE)))
                ELSE IF low = 1 THEN Ok(SvImm(ImmBool(TRUE)))
                ELSE Err("invalid value with high=0", off)
          [] high = 1 -> Bind(i64_pos(b, bs, off, low), LAMBDA i : Ok(SvImm(ImmInt64(i))))
          [] high = 2 -> Bind(i64_neg(b, bs, off, low), LAMBDA i : Ok(SvImm(ImmInt64(i))))
          [] high = 3 -> Bind(float(b, bs, off, low), LAMBDA f : Ok(SvImm(ImmFloat(f))))
          [] high = 4 -> Bind(str(b, bs, off, low), LAMBDA s : Ok(SvImm(ImmString(s))))
          [] high = 5 -> Bind(bytes(b, bs, off, low), LAMBDA s : Ok(SvImm(ImmBytes(s))))
          [] high = 6 -> Bind(array_cursor(b, bs, off, low), LAMBDA c : Ok(SvArray(c)))
          [] high = 7 -> Bind(map_cursor(b, bs, off, low), LAMBDA c : Ok(SvMap(c)))
          [] high = 8 -> Bind(tag(b, bs, off, low), LAMBDA tc : Ok(SvTag(tc[1], tc[2])))
          [] high \in {10, 11, 12} ->
                Bind(cstor(b, bs, off, high, low), LAMBDA ic : Ok(SvCstor(ic[1], ic[2])))
          [] high = 14 ->
                Bind(u64_with_low(b, bs, off, low), LAMBDA pn :
                Bind(BackTarget(b, off, pn[1], "ref underflow"), LAMBDA p :
                     Ok(SvImm(ImmRef(p)))))
          [] high = 15 -> Panic("unreachable")
          [] OTHER -> Err("invalid value", off))

\* get_shallow_value that decodes the entry at off without following
\* pointers
get_shallow_value_no_deref(b, bs, off) ==
    Bind(first_byte(bs, off), LAMBDA hl :
         IF hl[1] = 15
         THEN Bind(u64_with_low(b, bs, off, hl[2]), LAMBDA pn :
              Bind(BackTarget(b, off, pn[1], "pointer underflow"), LAMBDA o :
                   Ok(SvImm(ImmPointer(o)))))
         ELSE shallow_at(b, bs, off))

\* deser.rs Decoder::get_shallow_value
get_shallow_value(b, bs, off) ==
    Bind(deref(b, bs, off), LAMBDA o : shallow_at(b, bs, o))

\* deser.rs Decoder::entrypoint
entrypoint(b, bs) ==
    LET len == FromNat(Len(bs))
        sub1 == SubB(len, FromNat(1))
    IN  IF sub1.borrow = 1 /\ b = "debug"
        THEN Panic("attempt to subtract with overflow")
        ELSE LET last == sub1.val
             IN  Bind(ByteAt(bs, last), LAMBDA d :
                      LET s1 == SubB(last, FromNat(d))
                          s2 == SubB(s1.val, FromNat(1))
                      IN  IF (s1.borrow = 1 \/ s2.borrow = 1) /\ b = "debug"
                          THEN Panic("attempt to subtract with overflow")
                          ELSE deref(b, bs, s2.val))

\* the typed accessors: a shallow read, then the match on its kind
get_i64(b, bs, off) ==
    Bind(get_shallow_value(b, bs, off), LAMBDA sv :
         IF sv.kind = "Imm" /\ sv.imm.t = "Int64"
         THEN Ok(sv.imm.i) ELSE Err("expected integer", off))

get_bool(b, bs, off) ==
    Bind(get_shallow_value(b, bs, off), LAMBDA sv :
         IF sv.kind = "Imm" /\ sv.imm.t = "Bool"
         THEN Ok(sv.imm.b) ELSE Err("expected bool", off))

get_null(b, bs, off) ==
    Bind(get_shallow_value(b, bs, off), LAMBDA sv :
         IF sv.kind = "Imm" /\ sv.imm.t = "Null"
         THEN Ok(<<>>) ELSE Err("expected null", off))

get_float(b, bs, off) ==
    Bind(get_shallow_value(b, bs, off), LAMBDA sv :
         IF sv.kind = "Imm" /\ sv.imm.t = "Float"
         THEN Ok(sv.imm.f) ELSE Err("expected float", off))

\* get_str whose mismatch error carries the offset reached by deref
get_str_at_target(b, bs, off) ==
    Bind(deref(b, bs, off), LAMBDA o :
    Bind(shallow_at(b, bs, o), LAMBDA sv :
         IF sv.kind = "Imm" /\ sv.imm.t = "String"
         THEN Ok(sv.imm.s) ELSE Err("expected string", o)))

get_str(b, bs, off) ==
    Bind(get_shallow_value(b, bs, off), LAMBDA sv :
         IF sv.kind = "Imm" /\ sv.imm.t = "String"
         THEN Ok(sv.imm.s) ELSE Err("expected string", off))

get_bytes(b, bs, off) ==
    Bind(get_shallow_value(b, bs, off), LAMBDA sv :
         IF sv.kind = "Imm" /\ sv.imm.t = "Bytes"
         THEN Ok(sv.imm.s) ELSE Err("expected bytes", off))

get_tag(b, bs, off) ==
    Bind(get_shallow_value(b, bs, off), LAMBDA sv :
         IF sv.kind = "Tag"
         THEN Ok(<<sv.tag, sv.off>>) ELSE Err("expected tag", off))

\* what a cursor has yielded (items) and how its iteration ended (stop)
Walk(xs, r) == [items |-> xs, stop |-> r]

Done == Ok("done")

RECURSIVE array_iter(_, _, _, _)
\* ArrayCursor as an iterator: each step yields the current offset and moves
\* the cursor past that immediate with skip; a failing step ends the iteration
array_iter(b, bs, cur, acc) ==
    IF cur.n_items = U64Zero
    THEN Walk(acc, Done)
    ELSE With(skip(b, bs, cur.off), LAMBDA nx :
              IF IsOk(nx)
              THEN array_iter(b, bs,
                              Cursor(nx.val, SubB(cur.n_items, FromNat(1)).val),
                              Append(acc, cur.off))
              ELSE Walk(acc, nx))

RECURSIVE map_iter(_, _, _, _)
\* MapCursor as an iterator: each step yields (key, value) offsets, applying
\* skip twice
map_iter(b, bs, cur, acc) ==
    IF cur.n_items = U64Zero
    THEN Walk(acc, Done)
    ELSE With(skip(b, bs, cur.off), LAMBDA v :
              IF ~IsOk(v) THEN Walk(acc, v)
              ELSE With(skip(b, bs, v.val), LAMBDA nx :
                        IF IsOk(nx)
                        THEN map_iter(b, bs,
                                      Cursor(nx.val, SubB(cur.n_items, FromNat(1)).val),
                                      Append(acc, <<cur.off, v.val>>))
                        ELSE Walk(acc, nx)))

\* get_array / get_dict / get_cstor return their result (res) and leave the
\* caller's vector in the state out
Out(r, xs) == [res |-> r, out |-> xs]

\* Vec::clear without its effect
clear_not(res) == res

\* Vec::clear, the first statement of get_array / get_dict / get_cstor
clear(res) == <<>>

\* the match of get_array / get_dict / get_cstor on the shallow value sv:
\* the items of the cursor are pushed onto the cleared vector until one fails
collect(sv, kind, w, ok, mismatch, cleared) ==
    IF ~IsOk(sv) THEN Out(sv, cleared)
    ELSE IF sv.val.kind = kind
    THEN Out(IF w.stop = Done THEN ok ELSE w.stop, w.items)
    ELSE Out(mismatch, cleared)

\* deser.rs Decoder::get_array; res is the caller's vector
get_array(b, bs, off, res) ==
    With(get_shallow_value(b, bs, off), LAMBDA sv :
         collect(sv, "Array", array_iter(b, bs, sv.val.cur, clear(res)), Ok(<<>>),
                 Err("expected array", off), clear(res)))

\* deser.rs Decoder::get_dict
get_dict(b, bs, off, res) ==
    With(get_shallow_value(b, bs, off), LAMBDA sv :
         collect(sv, "Map", map_iter(b, bs, sv.val.cur, clear(res)), Ok(<<>>),
                 Err("expected dict", off), clear(res)))

\* deser.rs Decoder::get_cstor
get_cstor(b, bs, off, args) ==
    With(get_shallow_value(b, bs, off), LAMBDA sv :
         collect(sv, "Cstor", array_iter(b, bs, sv.val.args, clear(args)), Ok(sv.val.idx),
                 Err("expected cstor", off), clear(args)))

-----------------------------------------------------------------------------
(* the encoder (ser.rs).  An encoder e is [w, offset]: the bytes its sink   *)
(* has taken and its offset counter.  Every writer yields st ("ok" or      *)
(* "panic"), the encoder after it (enc), what it returns (ret) and, for    *)
(* the writers that take immediates, the offset at which each one was      *)
(* written (slots).  The targets of Ref and Pointer are below 2^31 here.   *)

\* Encoder::new over an empty Vec<u8>
\* the sinks (W: io::Write): a Vec<u8>, which takes every buffer whole, and a
\* slice &mut [u8] with room for a number of bytes, which takes what fits
VecSink == [kind |-> "Vec"]

SliceSink(n) == [kind |-> "slice", room |-> n]

\* the number of bytes of buf that io::Write::write hands to the sink; the
\* Ok(n) it returns
Accepted(sink, buf) ==
    IF sink.kind = "Vec" \/ Len(buf) <= sink.room THEN Len(buf) ELSE sink.room

\* the sink after it took n bytes
Taken(sink, n) == IF sink.kind = "Vec" THEN sink ELSE SliceSink(sink.room - n)

\* ser.rs Encoder::new(w); w holds the bytes the sink has taken
EncoderOver(sink) == [w |-> <<>>, offset |-> 0, sink |-> sink]

NewEncoder == EncoderOver(VecSink)

Wrote(e, r) == [st |-> "ok", enc |-> e, ret |-> r, slots |-> <<>>]

Aborted(e) == [st |-> "panic", enc |-> e, ret |-> 0, slots |-> <<>>]

\* the ? operator and sequencing: continue from an "ok" step
Then(r, F(_)) == IF r.st = "ok" THEN F(r) ELSE r

\* self.w.write(buf)?: the sink takes the bytes it accepts and the count it
\* returns is dropped
sink_write(e, buf) ==
    [e EXCEPT !.w = @ \o SubSeq(buf, 1, Accepted(e.sink, buf)),
              !.sink = Taken(@, Accepted(e.sink, buf))]

\* a write that leaves the offset where it was
advance_not(e, n) == e

\* self.offset += n
advance(e, n) == [e EXCEPT !.offset = @ + n]

\* ser.rs Encoder::first_byte (the encoder's, not the decoder's)
enc_first_byte(e, high, low) ==
    Wrote(advance(sink_write(e, <<BitOr(high * 16, low)>>), 1), e.offset)

\* first_byte_and_u64 whose extension holds n itself instead of n - 15
first_byte_and_u64_unbiased(e, high, n) ==
    IF Lt(n, FromNat(15))
    THEN enc_first_byte(e, high, ToNat(n))
    ELSE LET buf == <<BitOr(high * 16, 15)>> \o enc_leb128(n)
         IN  Wrote(advance(sink_write(e, buf), Len(buf)), e.offset)

\* ser.rs Encoder::first_byte_and_u64
first_byte_and_u64(e, high, n) ==
    IF Lt(n, FromNat(15))
    THEN enc_first_byte(e, high, ToNat(n))
    ELSE LET buf == <<BitOr(high * 16, 15)>> \o enc_leb128(SubB(n, FromNat(15)).val)
         IN  Wrote(advance(sink_write(e, buf), Len(buf)), e.offset)

write_null(e) == enc_first_byte(e, 0, 2)

write_bool(e, x) == enc_first_byte(e, 0, IF x THEN 1 ELSE 0)

I64Min == <<0, 0, 0, 32768>>

\* n < 0 for the i64 with bit pattern n
IsNegative(n) == n[4] >= 32768

\* ser.rs Encoder::write_i64; -n overflows for i64::MIN, and so does the - 1
\* that follows it when the negation has wrapped
write_i64(b, e, n) ==
    IF IsNegative(n)
    THEN IF n = I64Min /\ b = "debug"
         THEN Aborted(e)
         ELSE first_byte_and_u64(e, 2, SubB(SubB(U64Zero, n).val, FromNat(1)).val)
    ELSE first_byte_and_u64(e, 1, n)

\* write_ref that stores the target itself instead of the distance to it
write_ref_absolute(e, p) == first_byte_and_u64(e, 14, FromNat(p))

\* ser.rs Encoder::write_ref; p < offset is the caller's obligation
\* (debug_assert!(off > p))
write_ref(e, p) == first_byte_and_u64(e, 14, FromNat(e.offset - p - 1))

\* write_pointer that stores the target itself, not the distance to it
write_pointer_absolute(e, p) == first_byte_and_u64(e, 15, FromNat(p))

\* ser.rs Encoder::write_pointer, under the same obligation
write_pointer(e, p) == first_byte_and_u64(e, 15, FromNat(e.offset - p - 1))

\* the payload writers: a header, then the payload bytes
write_payload(hdr, payload) ==
    Then(hdr, LAMBDA r :
         Wrote(advance(sink_write(r.enc, payload), Len(payload)), r.ret))

\* ser.rs Encoder::write_f32, f given by its 4 little-endian bytes
write_f32(e, le) == write_payload(enc_first_byte(e, 3, 0), le)

\* ser.rs Encoder::write_f64, f given by its 8 little-endian bytes
write_f64(e, le) == write_payload(enc_first_byte(e, 3, 1), le)

\* ser.rs Encoder::write_string, s the UTF-8 bytes of the &str
write_string(e, s) == write_payload(first_byte_and_u64(e, 4, FromNat(Len(s))), s)

\* ser.rs Encoder::write_bytes
write_bytes(e, s) == write_payload(first_byte_and_u64(e, 5, FromNat(Len(s))), s)

\* ser.rs Encoder::write_cstor0
write_cstor0(e, c) == first_byte_and_u64(e, 10, c)

\* ser.rs Encoder::write_immediate
write_immediate(b, e, imm) ==
    CASE imm.t = "Null" -> write_null(e)
      [] imm.t = "Bool" -> write_bool(e, imm.b)
      [] imm.t = "Int64" -> write_i64(b, e, imm.i)
      [] imm.t = "Float" -> write_f64(e, imm.f.le)
      [] imm.t = "String" -> write_string(e, imm.s)
      [] imm.t = "Bytes" -> write_bytes(e, imm.s)
      [] imm.t = "Cstor0" -> write_cstor0(e, imm.idx)
      [] imm.t = "Ref" -> write_ref(e, ToNat(imm.p))
      [] imm.t = "Pointer" -> write_pointer(e, ToNat(imm.p))

\* write_immediate_or_return_pointer that writes a Pointer like any immediate
write_immediate_even_pointer(b, e, imm) == write_immediate(b, e, imm)

\* ser.rs Encoder::write_immediate_or_return_pointer
write_immediate_or_return_pointer(b, e, imm) ==
    IF imm.t = "Pointer" THEN Wrote(e, ToNat(imm.p)) ELSE write_immediate(b, e, imm)

RECURSIVE write_immediates(_, _, _, _)
\* `for v in arr { self.write_immediate(*v)? }`, noting where each one starts
write_immediates(b, e, imms, slots) ==
    IF imms = <<>>
    THEN [st |-> "ok", enc |-> e, ret |-> 0, slots |-> slots]
    ELSE Then(write_immediate(b, e, Head(imms)), LAMBDA r :
              write_immediates(b, r.enc, Tail(imms), Append(slots, e.offset)))

\* a header, then the immediates; returns the header's offset
write_composite(b, hdr, imms) ==
    Then(hdr, LAMBDA h :
    Then(write_immediates(b, h.enc, imms, <<>>), LAMBDA r :
         [st |-> "ok", enc |-> r.enc, ret |-> h.ret, slots |-> r.slots]))

\* ser.rs Encoder::write_tag
write_tag(b, e, t, v) == write_composite(b, first_byte_and_u64(e, 8, t), <<v>>)

\* ser.rs Encoder::write_array
write_array(b, e, arr) ==
    write_composite(b, first_byte_and_u64(e, 6, FromNat(Len(arr))), arr)

RECURSIVE Flatten(_)
\* <<k1, v1, k2, v2, ...>> for the pairs <<k1, v1>>, <<k2, v2>>, ...
Flatten(pairs) ==
    IF pairs = <<>> THEN <<>> ELSE <<Head(pairs)[1], Head(pairs)[2]>> \o Flatten(Tail(pairs))

\* ser.rs Encoder::write_map
write_map(b, e, pairs) ==
    write_composite(b, first_byte_and_u64(e, 7, FromNat(Len(pairs))), Flatten(pairs))

\* write_cstor that writes every variant with arguments as a one-argument one
write_cstor_no_count(b, e, c, args) ==
    IF Len(args) = 0
    THEN Wrote(e, ImmCstor0(c))
    ELSE Then(write_composite(b, first_byte_and_u64(e, 11, c), args), LAMBDA r :
              [r EXCEPT !.ret = ImmPointer(FromNat(r.ret))])

\* ser.rs Encoder::write_cstor; returns an Immediate
write_cstor(b, e, c, args) ==
    IF Len(args) = 0
    THEN Wrote(e, ImmCstor0(c))
    ELSE IF Len(args) = 1
    THEN Then(write_composite(b, first_byte_and_u64(e, 11, c), args), LAMBDA r :
              [r EXCEPT !.ret = ImmPointer(FromNat(r.ret))])
    ELSE LET hdr == Then(first_byte_and_u64(e, 12, c), LAMBDA h :
                         LET buf_len == enc_leb128(FromNat(Len(args)))
                         IN  Wrote(advance(sink_write(h.enc, buf_len), Len(buf_len)),
                                   h.ret))
         IN  Then(write_composite(b, hdr, args), LAMBDA r :
                  [r EXCEPT !.ret = ImmPointer(FromNat(r.ret))])

\* Encoder::finalize without the rescue pointer
finalize_no_rescue(b, e, entry) ==
    Then(write_immediate_or_return_pointer(b, e, entry), LAMBDA m :
         Wrote(advance(sink_write(m.enc, <<(m.enc.offset - m.ret - 1) % 256>>), 1), 0))

\* ser.rs Encoder::finalize
finalize(b, e, entry) ==
    Then(write_immediate_or_return_pointer(b, e, entry), LAMBDA m :
         LET delta == m.enc.offset - m.ret - 1
             rescue == IF delta > 250
                       THEN write_pointer(m.enc, m.ret)
                       ELSE Wrote(m.enc, m.ret)
             delta2 == IF delta > 250
                       THEN rescue.enc.offset - rescue.ret - 1
                       ELSE delta
         IN  Wrote(advance(sink_write(rescue.enc, <<delta2 % 256>>), 1), 0))

-----------------------------------------------------------------------------
(* deep values (value.rs)                                                  *)

VNull == [v |-> "Null"]

VBool(x) == [v |-> "Bool", b |-> x]

VInt64(x) == [v |-> "Int64", i |-> x]

VFloat(x) == [v |-> "Float", f |-> x]

VString(x) == [v |-> "String", s |-> x]

VBytes(x) == [v |-> "Bytes", s |-> x]

VCstor0(x) == [v |-> "Cstor0", idx |-> x]

VPointer(x) == [v |-> "Pointer", p |-> x]

\* Value::Ref, of the spec's data model and of ser.rs tests::test_ref
VRef(x) == [v |-> "Ref", p |-> x]

VTag(x, c) == [v |-> "Tag", tag |-> x, child |-> c]

VArray(xs) == [v |-> "Array", items |-> xs]

VMap(ps) == [v |-> "Map", pairs |-> ps]

VCstor(x, xs) == [v |-> "Cstor", idx |-> x, args |-> xs]

\* value.rs impl From<Immediate> for Value
ValueFrom(imm) ==
    CASE imm.t = "Null" -> VNull
      [] imm.t = "Bool" -> VBool(imm.b)
      [] imm.t = "Int64" -> VInt64(imm.i)
      [] imm.t = "Float" -> VFloat(imm.f)
      [] imm.t = "String" -> VString(imm.s)
      [] imm.t = "Bytes" -> VBytes(imm.s)
      [] imm.t = "Cstor0" -> VCstor0(imm.idx)
      [] imm.t = "Pointer" -> VPointer(imm.p)

\* Imm(Ref(o)) is preserved as Value::Ref(o)
ValueFromRef(imm) == VRef(imm.p)

\* Value::Ref(o) is written as Immediate::Ref(o)
ImmOfRef(val) == ImmRef(val.p)

\* value.rs write_value_or_imm, the arms that write nothing
ImmOfLeaf(val) ==
    CASE val.v = "Null" -> ImmNull
      [] val.v = "Bool" -> ImmBool(val.b)
      [] val.v = "Int64" -> ImmInt64(val.i)
      [] val.v = "Float" -> ImmFloat(val.f)
      [] val.v = "String" -> ImmString(val.s)
      [] val.v = "Bytes" -> ImmBytes(val.s)
      [] val.v = "Cstor0" -> ImmCstor0(val.idx)
      [] val.v = "Pointer" -> ImmPointer(val.p)
      [] val.v = "Ref" -> ImmOfRef(val)

IsLeaf(val) == val.v \notin {"Tag", "Array", "Map", "Cstor"}

RECURSIVE Pairs(_)
\* <<<<k1, v1>>, <<k2, v2>>, ...>> for <<k1, v1, k2, v2, ...>>
Pairs(flat) ==
    IF Len(flat) < 2 THEN <<>>
    ELSE <<(<<flat[1], flat[2]>>)>> \o Pairs(SubSeq(flat, 3, Len(flat)))

RECURSIVE write_value_or_imm(_, _, _)
RECURSIVE write_values(_, _, _, _)

\* the loops `for x in arr { res.push(write_value_or_imm(enc, x)?) }`:
\* ret is the vector of immediates gathered
write_values(b, e, vals, imms) ==
    IF vals = <<>>
    THEN Wrote(e, imms)
    ELSE Then(write_value_or_imm(b, e, Head(vals)), LAMBDA r :
              write_values(b, r.enc, Tail(vals), Append(imms, r.ret)))

\* value.rs write_value_or_imm; ret is the Immediate standing for the value
write_value_or_imm(b, e, val) ==
    CASE IsLeaf(val) -> Wrote(e, ImmOfLeaf(val))
      [] val.v = "Tag" ->
            Then(write_value_or_imm(b, e, val.child), LAMBDA c :
            Then(write_tag(b, c.enc, val.tag, c.ret), LAMBDA r :
                 Wrote(r.enc, ImmPointer(FromNat(r.ret)))))
      [] val.v = "Array" ->
            Then(write_values(b, e, val.items, <<>>), LAMBDA c :
            Then(write_array(b, c.enc, c.ret), LAMBDA r :
                 Wrote(r.enc, ImmPointer(FromNat(r.ret)))))
      [] val.v = "Map" ->
            Then(write_values(b, e, Flatten(val.pairs), <<>>), LAMBDA c :
            Then(write_map(b, c.enc, Pairs(c.ret)), LAMBDA r :
                 Wrote(r.enc, ImmPointer(FromNat(r.ret)))))
      [] val.v = "Cstor" ->
            Then(write_values(b, e, val.args, <<>>), LAMBDA c :
            Then(write_cstor(b, c.enc, val.idx, c.ret), LAMBDA r :
                 Wrote(r.enc, r.ret)))

\* value.rs write_value
write_value(b, e, val) ==
    Then(write_value_or_imm(b, e, val), LAMBDA r :
         write_immediate_or_return_pointer(b, r.enc, r.ret))

RECURSIVE read_value(_, _, _, _)
RECURSIVE read_items(_, _, _, _, _)
RECURSIVE read_pairs(_, _, _, _, _)

\* `for off in arr { let off = off?; arr_v.push(read_value(d, off)?) }`
read_items(b, bs, cur, fuel, acc) ==
    IF cur.n_items = U64Zero
    THEN Ok(acc)
    ELSE Bind(skip(b, bs, cur.off), LAMBDA nx :
         Bind(read_value(b, bs, cur.off, fuel), LAMBDA x :
              read_items(b, bs, Cursor(nx, SubB(cur.n_items, FromNat(1)).val), fuel,
                         Append(acc, x))))

\* `for kv in map { let (k, v) = kv?; map_v.push((read_value(d, k)?, read_value(d, v)?)) }`
read_pairs(b, bs, cur, fuel, acc) ==
    IF cur.n_items = U64Zero
    THEN Ok(acc)
    ELSE Bind(skip(b, bs, cur.off), LAMBDA voff :
         Bind(skip(b, bs, voff), LAMBDA nx :
         Bind(read_value(b, bs, cur.off, fuel), LAMBDA k :
         Bind(read_value(b, bs, voff, fuel), LAMBDA x :
              read_pairs(b, bs, Cursor(nx, SubB(cur.n_items, FromNat(1)).val), fuel,
                         Append(acc, <<k, x>>))))))

\* value.rs read_value; fuel bounds the depth of the recursion, which the
\* stack bounds in the program
read_value(b, bs, off, fuel) ==
    IF fuel = 0 THEN Panic("stack overflow")
    ELSE Bind(get_shallow_value(b, bs, off), LAMBDA sv :
         CASE sv.kind = "Imm" ->
                Ok(IF sv.imm.t = "Ref" THEN ValueFromRef(sv.imm) ELSE ValueFrom(sv.imm))
           [] sv.kind = "Tag" ->
                Bind(read_value(b, bs, sv.off, fuel - 1), LAMBDA c : Ok(VTag(sv.tag, c)))
           [] sv.kind = "Array" ->
                Bind(read_items(b, bs, sv.cur, fuel - 1, <<>>), LAMBDA xs : Ok(VArray(xs)))
           [] sv.kind = "Map" ->
                Bind(read_pairs(b, bs, sv.cur, fuel - 1, <<>>), LAMBDA ps : Ok(VMap(ps)))
           [] sv.kind = "Cstor" ->
                Bind(read_items(b, bs, sv.args, fuel - 1, <<>>), LAMBDA xs :
                     Ok(VCstor(sv.idx, xs))))

\* the recursion cannot be deeper than the blob is long without repeating
Fuel(bs) == Len(bs) + 1

\* value.rs read_value_from_entrypoint
read_value_from_entrypoint(b, bs) ==
    Bind(entrypoint(b, bs), LAMBDA off : read_value(b, bs, off, Fuel(bs)))

-----------------------------------------------------------------------------
(* the LEB128 round trip: n is drawn at Init, encoded, then decoded        *)

\* numbers on both sides of every 7-bit group boundary, and the extremes
LebInputs ==
    {U64Zero, U64Max, I64Max, U32Max}
        \cup {Pow2(k) : k \in 0..63}
        \cup {SubB(Pow2(k), FromNat(1)).val : k \in 0..63}
        \cup {AddC(Pow2(k), FromNat(k)).val : k \in 8..63}

InitLeb ==
    /\ build \in Builds
    /\ lebN \in LebInputs
    /\ lebBuf = <<>>
    /\ lebDec = NoneYet
    /\ blob = <<>>
    /\ call = NoneYet
    /\ enc = NewEncoder
    /\ stage = "idle"
    /\ returned = <<>>
    /\ lastOp = NoneYet

\* enc_leb128(n, &mut buf)
EncLeb ==
    /\ lebBuf = <<>>
    /\ lebBuf' = enc_leb128(lebN)
    /\ UNCHANGED <<build, lebN, lebDec, decVars, encVars>>

\* Decoder::new(&buf).leb128(0)
DecLeb ==
    /\ lebBuf # <<>>
    /\ lebDec = NoneYet
    /\ lebDec' = leb128(lebBuf, FromNat(0))
    /\ UNCHANGED <<build, lebN, lebBuf, decVars, encVars>>

NextLeb == EncLeb \/ DecLeb

SpecLeb == InitLeb /\ [][NextLeb]_vars

\* every byte but the last has its high bit set, the last has it clear
LebShape(buf) ==
    /\ Len(buf) >= 1
    /\ \A i \in 1..Len(buf) : (buf[i] >= 128) <=> (i < Len(buf))

\* C8: for every u64 n, enc_leb128(n) writes k <= 10 bytes, 7 payload bits per
\* byte with the high bit set on all but the last, and the decoder's leb128
\* reader applied to those bytes returns (n, k).
C8_LebRoundTrip ==
    /\ lebBuf # <<>> => Len(lebBuf) <= 10 /\ LebShape(lebBuf)
    /\ lebDec # NoneYet => lebDec = Ok(<<lebN, Len(lebBuf)>>)

\* u64::MAX has been encoded on ten bytes and decoded
C8_Witness == lebN = U64Max /\ Len(lebBuf) = 10 /\ IsOk(lebDec)

-----------------------------------------------------------------------------
(* the decoder over arbitrary buffers: a buffer is drawn at Init, then one *)
(* read operation is applied at one offset (the decoder is immutable, so   *)
(* a second read would see the same buffer)                                *)

MaxFrags == 2

Rep(c, n) == [i \in 1..n |-> c]

\* pieces of blobs: one encoding of every kind of value, the two kinds of
\* back-reference, a chain of two pointers, and three invalid first bytes
Fragments ==
    { <<2>>,                          \* null
      <<1>>,                          \* true
      <<21>>,                         \* Int64(5)
      <<48, 0, 0, 128, 63>>,          \* the f32 1.0
      <<65, 97>>,                     \* "a"
      <<81, 7>>,                      \* bytes [7]
      <<97>>,                         \* array of 1, the item follows
      <<113>>,                        \* map of 1, the pair follows
      <<135>>,                        \* tag 7, the value follows
      <<163>>,                        \* variant 3 with no argument
      <<177>>,                        \* variant 1 with one argument
      <<194>>,                        \* variant 2, the count and arguments follow
      <<208>>,                        \* reserved high = 13
      <<224>>,                        \* ref, delta 0
      <<240>>,                        \* pointer, delta 0
      <<241>>,                        \* pointer, delta 1
      <<240, 240>>,                   \* a pointer to the pointer before it
      <<3>>,                          \* high = 0 with an invalid low
      <<144>> }                       \* reserved high = 9

RECURSIVE Concats(_)
\* the concatenations of at most n fragments
Concats(n) ==
    IF n = 0 THEN {<<>>}
    ELSE LET shorter == Concats(n - 1)
         IN  shorter \cup {x \o f : x \in shorter, f \in Fragments}

Blobs == Concats(MaxFrags)

InitDec ==
    /\ build \in Builds
    /\ blob \in Blobs
    /\ call = NoneYet
    /\ lebN = U64Zero
    /\ lebBuf = <<>>
    /\ lebDec = NoneYet
    /\ enc = NewEncoder
    /\ stage = "idle"
    /\ returned = <<>>
    /\ lastOp = NoneYet

\* the offsets a caller passes: every position of the buffer and one past it
Offsets == 0..Len(blob)

CalledWith(name, off, prior, r, o) ==
    /\ call = NoneYet
    /\ call' = [op |-> name, off |-> off, prior |-> prior, res |-> r, out |-> o]
    /\ UNCHANGED <<build, blob, lebVars, encVars>>

Called(name, off, r, o) == CalledWith(name, off, <<>>, r, o)

DecEntrypoint == Called("entrypoint", 0, entrypoint(build, blob), <<>>)

DecDeref == \E off \in Offsets : Called("deref", off, deref(build, blob, FromNat(off)), <<>>)

DecSkip == \E off \in Offsets : Called("skip", off, skip(build, blob, FromNat(off)), <<>>)

DecGetShallowValue ==
    \E off \in Offsets :
        Called("get_shallow_value", off, get_shallow_value(build, blob, FromNat(off)), <<>>)

DecGetI64 == \E off \in Offsets : Called("get_i64", off, get_i64(build, blob, FromNat(off)), <<>>)

DecGetBool == \E off \in Offsets : Called("get_bool", off, get_bool(build, blob, FromNat(off)), <<>>)

DecGetNull == \E off \in Offsets : Called("get_null", off, get_null(build, blob, FromNat(off)), <<>>)

DecGetFloat == \E off \in Offsets : Called("get_float", off, get_float(build, blob, FromNat(off)), <<>>)

DecGetStr == \E off \in Offsets : Called("get_str", off, get_str(build, blob, FromNat(off)), <<>>)

DecGetBytes == \E off \in Offsets : Called("get_bytes", off, get_bytes(build, blob, FromNat(off)), <<>>)

DecGetTag == \E off \in Offsets : Called("get_tag", off, get_tag(build, blob, FromNat(off)), <<>>)

\* a read that fills a vector of the caller
CalledOut(name, off, prior, r) == CalledWith(name, off, prior, r.res, r.out)

\* an offset beyond every blob, standing for what an earlier call left in
\* the caller's vector
Stale == FromNat(999)

\* the vector handed to get_array and get_cstor: fresh, or used before
Vecs == {<<>>, <<Stale, Stale>>}

\* the vector handed to get_dict
PairVecs == {<<>>, <<<<Stale, Stale>>>>}

DecGetArray ==
    \E off \in Offsets, res \in Vecs :
        CalledOut("get_array", off, res, get_array(build, blob, FromNat(off), res))

DecGetDict ==
    \E off \in Offsets, res \in PairVecs :
        CalledOut("get_dict", off, res, get_dict(build, blob, FromNat(off), res))

DecGetCstor ==
    \E off \in Offsets, args \in Vecs :
        CalledOut("get_cstor", off, args, get_cstor(build, blob, FromNat(off), args))

NextDec ==
    \/ DecEntrypoint
    \/ DecDeref
    \/ DecSkip
    \/ DecGetShallowValue
    \/ DecGetI64
    \/ DecGetBool
    \/ DecGetNull
    \/ DecGetFloat
    \/ DecGetStr
    \/ DecGetBytes
    \/ DecGetTag
    \/ DecGetArray
    \/ DecGetDict
    \/ DecGetCstor

SpecDec == InitDec /\ [][NextDec]_vars

\* the byte at off is the first byte of a Pointer entry
IsPointerAt(off) == off >= 0 /\ off < Len(blob) /\ blob[off + 1] \div 16 = 15

\* the distance a Pointer entry at off stores
PointerDelta(off) ==
    ToNat(u64_with_low(build, blob, FromNat(off), blob[off + 1] % 16).val[1])

RECURSIVE ChainEnd(_)
\* the first offset that holds no Pointer along the chain of Pointer entries
\* that starts at off
ChainEnd(off) ==
    IF IsPointerAt(off) THEN ChainEnd(off - PointerDelta(off) - 1) ELSE off

RECURSIVE ChainLen(_)
\* the number of Pointer entries on that chain
ChainLen(off) ==
    IF IsPointerAt(off) THEN 1 + ChainLen(off - PointerDelta(off) - 1) ELSE 0

Returned(name) == call # NoneYet /\ call.op = name

\* C4: whenever get_shallow_value returns Ok, at any offset of any blob, the
\* ShallowValue is not Imm(Pointer(_)): the chain of Pointer entries, of any
\* length, was followed and the value is the one decoded at the first offset
\* that holds no Pointer.
C4_PointerTransparent ==
    (Returned("get_shallow_value") /\ IsOk(call.res))
        => /\ ~(call.res.val.kind = "Imm" /\ call.res.val.imm.t = "Pointer")
           /\ ~IsPointerAt(ChainEnd(call.off))
           /\ call.res = shallow_at(build, blob, FromNat(ChainEnd(call.off)))

\* a value was read through a chain of two pointers
C4_Witness ==
    /\ Returned("get_shallow_value")
    /\ IsOk(call.res)
    /\ ChainLen(call.off) = 2
    /\ call.res = Ok(SvImm(ImmInt64(FromNat(5))))

\* the high nibbles of the values that have no locally known size, and the
\* reserved ones
Unskippable == {6, 7, 8, 9, 11, 12, 13}

HighAt(off) == blob[off + 1] \div 16

\* C12: at every offset whose first byte has high nibble 6 (array), 7 (map),
\* 8 (tag), 11 or 12 (variant with arguments) or the reserved 9 or 13,
\* Decoder::skip returns Err carrying that offset, never an end offset.
C12_SkipComposite ==
    (Returned("skip") /\ call.off < Len(blob) /\ HighAt(call.off) \in Unskippable)
        => /\ IsErr(call.res)
           /\ call.res.off = FromNat(call.off)

\* skip was refused at a variant with a count of arguments
C12_Witness ==
    /\ Returned("skip")
    /\ call.off < Len(blob)
    /\ HighAt(call.off) = 12
    /\ call.res = Err("cannot skip over constructor", FromNat(call.off))

\* C9: on every buffer (empty, truncated and malformed ones included) and at
\* every offset, entrypoint, deref, skip, get_shallow_value and the typed
\* accessors return Ok or an Error value; none aborts.
C9_NoAbort == call # NoneYet => call.res.tag \in {"Ok", "Err"}

\* the kind of a shallow value, as the typed accessors tell kinds apart
KindOf(sv) == IF sv.kind = "Imm" THEN sv.imm.t ELSE sv.kind

\* the kind each typed accessor matches
Wanted ==
    [get_i64 |-> "Int64", get_bool |-> "Bool", get_null |-> "Null", get_float |-> "Float",
     get_str |-> "String", get_bytes |-> "Bytes", get_array |-> "Array", get_dict |-> "Map",
     get_tag |-> "Tag", get_cstor |-> "Cstor"]

\* the message each typed accessor fails with
Expected ==
    [get_i64 |-> "expected integer", get_bool |-> "expected bool",
     get_null |-> "expected null", get_float |-> "expected float",
     get_str |-> "expected string", get_bytes |-> "expected bytes",
     get_array |-> "expected array", get_dict |-> "expected dict",
     get_tag |-> "expected tag", get_cstor |-> "expected cstor"]

\* a typed accessor was called where a value of another kind decodes
Mismatch ==
    /\ call # NoneYet
    /\ call.op \in DOMAIN Wanted
    /\ LET sv == get_shallow_value(build, blob, FromNat(call.off))
       IN  IsOk(sv) /\ KindOf(sv.val) # Wanted[call.op]

\* C10: a typed accessor called at off, where the value (after following
\* pointers) decodes to another kind, returns Err with its own constant
\* message "expected <kind>" and with the offset off the caller passed.
C10_KindMismatch ==
    Mismatch => call.res = Err(Expected[call.op], FromNat(call.off))

\* get_str was called on a pointer to an integer
C10_Witness ==
    /\ Mismatch
    /\ call.op = "get_str"
    /\ IsPointerAt(call.off)
    /\ ChainEnd(call.off) # call.off
    /\ call.res = Err("expected string", FromNat(call.off))

\* the accessors that fill a vector of the caller
VecCalls == {"get_array", "get_dict", "get_cstor"}

\* the cursor of the value a vector accessor was called on
CursorAt(off) ==
    With(get_shallow_value(build, blob, FromNat(off)).val, LAMBDA sv :
         IF sv.kind = "Cstor" THEN sv.args ELSE sv.cur)

\* offs are the offsets of the items of the cursor cur, in order: the first
\* is where the cursor starts and each next one is where skip leaves the
\* one before
ChildOffsets(offs, cur) ==
    /\ FromNat(Len(offs)) = cur.n_items
    /\ offs # <<>> => offs[1] = cur.off
    /\ \A i \in 1..(Len(offs) - 1) : skip(build, blob, offs[i]) = Ok(offs[i + 1])

\* the same for the (key, value) pairs of a map
ChildPairs(pairs, cur) ==
    /\ FromNat(Len(pairs)) = cur.n_items
    /\ pairs # <<>> => pairs[1][1] = cur.off
    /\ \A i \in 1..Len(pairs) : skip(build, blob, pairs[i][1]) = Ok(pairs[i][2])
    /\ \A i \in 1..(Len(pairs) - 1) : skip(build, blob, pairs[i][2]) = Ok(pairs[i + 1][1])

\* C14: get_array, get_dict and get_cstor clear the caller's vector first:
\* after the call it holds no element that was in it before; on Ok it holds
\* exactly the child offsets of the value in order (for a map the (key,
\* value) offset pairs); on a kind-mismatch Err it is empty.
C14_VectorCleared ==
    (call # NoneYet /\ call.op \in VecCalls)
        => /\ \A i \in 1..Len(call.out), j \in 1..Len(call.prior) :
                  call.out[i] # call.prior[j]
           /\ IsOk(call.res)
                  => IF call.op = "get_dict"
                     THEN ChildPairs(call.out, CursorAt(call.off))
                     ELSE ChildOffsets(call.out, CursorAt(call.off))
           /\ Mismatch => call.out = <<>>

\* get_array filled a used vector with the offset of the one item of an array
C14_Witness ==
    /\ Returned("get_array") /\ call.prior # <<>>
    /\ IsOk(call.res) /\ Len(call.out) = 1


-----------------------------------------------------------------------------
(* the encoder driven by a client: at most MaxPre small writes, then one   *)
(* write drawn from the full input sets, then finalize.  `returned` holds  *)
(* the offsets the Encoder's writers have returned to the client, in call  *)
(* order; `lastOp` describes the latest call.                                *)

MaxPre == 1

MaxFan == 2

MaxDepth == 2

EdgeLen == 248

Str(n) == Rep(97, n)

Hello == <<104, 101, 108, 108, 111>>

\* the strings written before the write under study
FillStrings == {Hello, Str(15)}

\* lengths on both sides of the inline-length boundary (14 / 15) and of the
\* postfix boundary (a delta of 250 / 251), and a two-byte character
Strings == {<<>>, Hello, Str(14), Str(15), Str(EdgeLen), Str(EdgeLen + 1), <<195, 169>>}

ByteStrings == {<<>>, <<7>>, <<255, 0>>, Rep(0, 14), Rep(0, 15)}

Ints ==
    {FromNat(n) : n \in {0, 5, 14, 15, 16, 42}}
        \cup {SubB(U64Zero, FromNat(n)).val : n \in {1, 15, 16, 17}}
        \cup {I64Max, I64Min, Pow2(32)}

CstorIdxs == {FromNat(0), FromNat(7), FromNat(14), FromNat(15), U32Max}

Tags == {FromNat(0), FromNat(7), FromNat(15), U32Max}

OnePointZero == F64(<<0, 0, 0, 0, 0, 0, 240, 63>>)

\* the targets a Ref or a Pointer is given: offsets below the current one
Targets(e) == {p \in 0..(e.offset - 1) : p < 3 \/ p + 1 = e.offset}

BackRefs(e) == {ImmRef(FromNat(p)) : p \in Targets(e)}
                   \cup {ImmPointer(FromNat(p)) : p \in Targets(e)}

Imms(e) ==
    {ImmNull, ImmBool(FALSE), ImmBool(TRUE), ImmFloat(OnePointZero)}
        \cup {ImmInt64(i) : i \in Ints}
        \cup {ImmString(x) : x \in Strings}
        \cup {ImmBytes(x) : x \in ByteStrings}
        \cup {ImmCstor0(c) : c \in CstorIdxs}
        \cup BackRefs(e)

\* the immediates put inside composites
SmallImms(e) ==
    {ImmInt64(FromNat(5)), ImmString(Hello)}
        \cup {ImmRef(FromNat(p)) : p \in {q \in Targets(e) : q < 1}}
        \cup {ImmPointer(FromNat(p)) : p \in {q \in Targets(e) : q < 1}}

\* the arguments given to write_cstor
CstorArgs(e) == SmallImms(e) \cup {ImmCstor0(FromNat(3))}

RECURSIVE SeqsUpTo(_, _)
\* the sequences of at most n elements of S
SeqsUpTo(S, n) ==
    IF n = 0 THEN {<<>>}
    ELSE LET shorter == SeqsUpTo(S, n - 1)
         IN  shorter \cup {Append(x, y) : x \in shorter, y \in S}

ImmPairs(e) ==
    {<<ImmString(Hello), ImmNull>>, <<ImmInt64(FromNat(5)), ImmString(Hello)>>}
        \cup {<<ImmString(Hello), ImmRef(FromNat(p))>> : p \in {q \in Targets(e) : q < 1}}

Leaves(e) ==
    {VNull, VBool(TRUE), VFloat(OnePointZero), VString(Hello), VString(Str(15)),
     VBytes(<<7>>), VCstor0(FromNat(7)), VCstor0(FromNat(15))}
        \cup {VInt64(i) : i \in {FromNat(5), FromNat(15), I64Max, I64Min,
                                 SubB(U64Zero, FromNat(1)).val}}
        \cup {VRef(FromNat(p)) : p \in Targets(e)}
        \cup {VPointer(FromNat(p)) : p \in Targets(e)}

\* the leaves put inside composite values
SmallLeaves(e) ==
    {VInt64(FromNat(5)), VString(Hello)}
        \cup {VRef(FromNat(p)) : p \in {q \in Targets(e) : q < 1}}

\* one more level around x: a tag, a one-item array, a one-entry map or a
\* one-argument constructor
Wrap(k, x) ==
    CASE k % 4 = 0 -> VTag(FromNat(7), x)
      [] k % 4 = 1 -> VArray(<<x>>)
      [] k % 4 = 2 -> VMap(<<(<<VString(Hello), x>>)>>)
      [] k % 4 = 3 -> VCstor(FromNat(7), <<x>>)

RECURSIVE Nested(_, _, _)
\* x wrapped d times, the kinds of wrapper taking turns from the k-th on
Nested(k, d, x) == IF d = 0 THEN x ELSE Wrap(k, Nested(k + 1, d - 1, x))

Values(e) ==
    Leaves(e)
        \cup {Nested(k, d, x) : k \in 0..3, d \in 1..MaxDepth, x \in SmallLeaves(e)}
        \cup {VArray(xs) : xs \in SeqsUpTo(SmallLeaves(e), MaxFan)}
        \cup {VCstor(FromNat(15), xs) : xs \in SeqsUpTo(SmallLeaves(e), MaxFan)}
        \cup {VMap(ps) : ps \in SeqsUpTo({<<VString(Hello), x>> : x \in {VNull, VArray(<<>>)}},
                                         MaxFan)}
        \cup {VArray(<<VPointer(FromNat(p))>>) : p \in {q \in Targets(e) : q < 3}}
        \cup {VArray(<<VArray(<<>>), VTag(FromNat(0), VCstor0(FromNat(3))),
                       VCstor(FromNat(1), <<VNull, VNull>>)>>)}

Init ==
    /\ build \in Builds
    /\ enc = NewEncoder
    /\ stage = "pre"
    /\ returned = <<>>
    /\ lastOp = NoneYet
    /\ blob = <<>>
    /\ call = NoneYet
    /\ lebN = U64Zero
    /\ lebBuf = <<>>
    /\ lebDec = NoneYet

\* a returned offset, with the call that returned it; ptr marks a write_immediate_or_return_pointer that was
\* given a Pointer
Ret(name, arg, off, isPtr) == [op |-> name, arg |-> arg, off |-> off, ptr |-> isPtr]

\* one client call: r is what the writer did on enc.  While fewer than
\* MaxPre writes were made a call may count among the small ones (~study).
Step(name, arg, r, study, rets) ==
    /\ stage = "pre"
    /\ study \/ Len(returned) < MaxPre
    /\ enc' = r.enc
    /\ stage' = IF r.st = "panic" THEN "panicked" ELSE IF study THEN "acted" ELSE "pre"
    /\ returned' = IF r.st = "ok" THEN returned \o rets ELSE returned
    /\ lastOp' = [op |-> name, arg |-> arg, pre |-> enc.offset, len |-> Len(enc.w),
                st |-> r.st, ret |-> r.ret, slots |-> r.slots, prev |-> NoneYet]
    /\ UNCHANGED <<build, lebVars, decVars>>

\* an offset-returning writer of the Encoder
Writer(name, arg, r, study) ==
    Step(name, arg, r, study, <<Ret(name, arg, r.ret, FALSE)>>)

WriteNull == \E study \in BOOLEAN : Writer("write_null", <<>>, write_null(enc), study)

WriteBool == \E x \in BOOLEAN : Writer("write_bool", x, write_bool(enc, x), TRUE)

WriteI64 == \E i \in Ints : Writer("write_i64", i, write_i64(build, enc, i), TRUE)

WriteF32 == \E le \in {<<0, 0, 128, 63>>} : Writer("write_f32", le, write_f32(enc, le), TRUE)

WriteF64 == \E f \in {OnePointZero} : Writer("write_f64", f, write_f64(enc, f.le), TRUE)

WriteString ==
    \E x \in Strings, study \in BOOLEAN :
        /\ study \/ x \in FillStrings
        /\ Writer("write_string", x, write_string(enc, x), study)

WriteBytes == \E x \in ByteStrings : Writer("write_bytes", x, write_bytes(enc, x), TRUE)

WriteCstor0 == \E c \in CstorIdxs : Writer("write_cstor0", c, write_cstor0(enc, c), TRUE)

WriteRef == \E p \in Targets(enc) : Writer("write_ref", p, write_ref(enc, p), TRUE)

WritePointer == \E p \in Targets(enc) : Writer("write_pointer", p, write_pointer(enc, p), TRUE)

WriteImmediate ==
    \E imm \in Imms(enc) :
        Writer("write_immediate", imm, write_immediate(build, enc, imm), TRUE)

WriteImmediateOrReturnPointer ==
    \E imm \in Imms(enc) :
        LET r == write_immediate_or_return_pointer(build, enc, imm)
        IN  Step("write_immediate_or_return_pointer", imm, r, TRUE,
                 <<Ret("write_immediate_or_return_pointer", imm, r.ret, imm.t = "Pointer")>>)

WriteTag ==
    \E t \in Tags, x \in SmallImms(enc) :
        Writer("write_tag", <<t, x>>, write_tag(build, enc, t, x), TRUE)

WriteArray ==
    \E arr \in SeqsUpTo(SmallImms(enc), MaxFan) \cup {Rep(ImmNull, 15)} :
        Writer("write_array", arr, write_array(build, enc, arr), TRUE)

WriteMap ==
    \E pairs \in SeqsUpTo(ImmPairs(enc), MaxFan) :
        Writer("write_map", pairs, write_map(build, enc, pairs), TRUE)

\* write_cstor returns an Immediate, not an offset
WriteCstor ==
    \E c \in {FromNat(7), FromNat(15)}, args \in SeqsUpTo(CstorArgs(enc), MaxFan) :
        Step("write_cstor", <<c, args>>, write_cstor(build, enc, c, args), TRUE, <<>>)

\* value.rs write_value, a client of the encoder
WriteValue ==
    \E val \in Values(enc) :
        Step("write_value", val, write_value(build, enc, val), TRUE, <<>>)

\* what finalize is given: a pointer to the value just written or to the
\* start of the blob, an immediate still to be written, or what write_cstor
\* returned
Entries ==
    {ImmNull}
        \cup (IF stage = "pre"
              THEN {ImmString(Str(EdgeLen)), ImmString(Str(EdgeLen + 1))}
                       \cup {ImmPointer(FromNat(p)) : p \in {q \in Targets(enc) : q = 0}}
              ELSE {})
        \cup (IF lastOp # NoneYet /\ lastOp.st = "ok" /\ lastOp.op \notin {"write_cstor"}
              THEN {ImmPointer(FromNat(lastOp.ret))} ELSE {})
        \cup (IF lastOp # NoneYet /\ lastOp.st = "ok" /\ lastOp.op = "write_cstor"
              THEN {lastOp.ret} ELSE {})

\* Encoder::finalize consumes the encoder
Finalize ==
    \E entry \in Entries :
        LET r == finalize(build, enc, entry)
        IN  /\ stage \in {"pre", "acted"}
            /\ enc' = r.enc
            /\ stage' = IF r.st = "panic" THEN "panicked" ELSE "final"
            /\ lastOp' = [op |-> "finalize", arg |-> entry, pre |-> enc.offset,
                        len |-> Len(enc.w), st |-> r.st, ret |-> 0, slots |-> <<>>,
                        prev |-> lastOp]
            /\ UNCHANGED <<build, returned, lebVars, decVars>>

Next ==
    \/ WriteNull
    \/ WriteBool
    \/ WriteI64
    \/ WriteF32
    \/ WriteF64
    \/ WriteString
    \/ WriteBytes
    \/ WriteCstor0
    \/ WriteRef
    \/ WritePointer
    \/ WriteImmediate
    \/ WriteImmediateOrReturnPointer
    \/ WriteTag
    \/ WriteArray
    \/ WriteMap
    \/ WriteCstor
    \/ WriteValue
    \/ Finalize

Spec == Init /\ [][Next]_vars

-----------------------------------------------------------------------------
(* properties of the encoder run, read back with the decoder               *)

\* the decoder's view of the bytes written so far
ReadValue(off) == read_value(build, enc.w, FromNat(off), Fuel(enc.w))

ShallowValue(off) == get_shallow_value(build, enc.w, FromNat(off))

RECURSIVE AllLeaves(_, _)
\* every leaf of the value has one of the given kinds
AllLeaves(val, kinds) ==
    CASE val.v = "Tag" -> AllLeaves(val.child, kinds)
      [] val.v = "Array" -> \A i \in DOMAIN val.items : AllLeaves(val.items[i], kinds)
      [] val.v = "Map" ->
            \A i \in DOMAIN val.pairs :
                AllLeaves(val.pairs[i][1], kinds) /\ AllLeaves(val.pairs[i][2], kinds)
      [] val.v = "Cstor" -> \A i \in DOMAIN val.args : AllLeaves(val.args[i], kinds)
      [] OTHER -> val.v \in kinds

RECURSIVE HasLeaf(_, _)
\* some leaf of the value has the given kind
HasLeaf(val, k) ==
    CASE val.v = "Tag" -> HasLeaf(val.child, k)
      [] val.v = "Array" -> \E i \in DOMAIN val.items : HasLeaf(val.items[i], k)
      [] val.v = "Map" ->
            \E i \in DOMAIN val.pairs :
                HasLeaf(val.pairs[i][1], k) \/ HasLeaf(val.pairs[i][2], k)
      [] val.v = "Cstor" -> \E i \in DOMAIN val.args : HasLeaf(val.args[i], k)
      [] OTHER -> val.v = k

\* the grammar of the round trip: no floats, no Ref or Pointer leaves
InGrammar(val) == AllLeaves(val, {"Null", "Bool", "Int64", "String", "Bytes", "Cstor0"})

WroteValue == lastOp # NoneYet /\ lastOp.op = "write_value"

\* C1: a Value of the grammar (Null, Bool, Int64, String, Bytes, Cstor0, Tag,
\* Array, Map, Cstor) written by write_value into a fresh encoder is read
\* back by read_value, at the offset write_value returned, as an equal value.
C1_ValueRoundTrip ==
    (WroteValue /\ lastOp.pre = 0 /\ InGrammar(lastOp.arg))
        => /\ lastOp.st = "ok"
           /\ ReadValue(lastOp.ret) = Ok(lastOp.arg)

\* finalize(Pointer(e)) was called with the offset e that write_value returned
FinalizedValue ==
    /\ stage = "final"
    /\ lastOp.prev # NoneYet
    /\ lastOp.prev.op = "write_value"
    /\ lastOp.arg = ImmPointer(FromNat(lastOp.prev.ret))

\* C2 (first half): after write_value returned e and finalize(Pointer(e)),
\* entrypoint() succeeds and returns deref(e).
EntrypointIsDerefOfEntry ==
    FinalizedValue
        => /\ IsOk(entrypoint(build, enc.w))
           /\ entrypoint(build, enc.w) = deref(build, enc.w, FromNat(lastOp.prev.ret))

\* C2: whatever was written before it, a Value v written by write_value at e
\* and made the entry point by finalize(Pointer(e)) is found again:
\* entrypoint() is Ok(deref(e)) and read_value_from_entrypoint returns v.
C2_EntrypointRoundTrip ==
    (FinalizedValue /\ InGrammar(lastOp.prev.arg))
        => /\ EntrypointIsDerefOfEntry
           /\ read_value_from_entrypoint(build, enc.w) = Ok(lastOp.prev.arg)

\* finalize(entry) returned
Finalized == stage = "final" /\ lastOp.st = "ok"

\* where the entry value starts: the target of a Pointer entry, else the
\* offset at which finalize wrote the entry
EntryOffset ==
    IF lastOp.arg.t = "Pointer" THEN ToNat(lastOp.arg.p) ELSE lastOp.pre

\* the offset after the entry was written: skip over an entry that finalize
\* wrote, the offset before the call for a Pointer entry
AfterEntry ==
    IF lastOp.arg.t = "Pointer" THEN lastOp.pre
    ELSE ToNat(skip(build, enc.w, FromNat(lastOp.pre)).val)

NaturalDelta == AfterEntry - EntryOffset - 1

Postfix == enc.w[Len(enc.w)]

\* the bytes from AfterEntry up to the postfix are one Pointer to the entry
RescuePointer ==
    LET hl == first_byte(enc.w, FromNat(AfterEntry)).val
        end == skip(build, enc.w, FromNat(AfterEntry))
    IN  /\ hl[1] = 15
        /\ deref(build, enc.w, FromNat(AfterEntry)) = deref(build, enc.w, FromNat(EntryOffset))
        /\ BackTarget(build, FromNat(AfterEntry),
                      u64_with_low(build, enc.w, FromNat(AfterEntry), hl[2]).val[1],
                      "pointer underflow") = Ok(FromNat(EntryOffset))
        /\ end = Ok(FromNat(Len(enc.w) - 1))
        /\ Postfix = Len(enc.w) - 1 - AfterEntry - 1

\* C3: after any writes and finalize(entry) the last byte of the blob is at
\* most 250; when the natural delta (offset - entry offset - 1) exceeds 250,
\* one explicit Pointer to the entry precedes the postfix and the postfix is
\* the delta to that pointer; otherwise no pointer is added and the postfix
\* is the natural delta.
C3_PostfixBound ==
    Finalized
        => /\ Postfix <= 250
           /\ NaturalDelta > 250 => RescuePointer
           /\ NaturalDelta <= 250 => Len(enc.w) = AfterEntry + 1 /\ Postfix = NaturalDelta

\* finalize met a natural delta above 250
C3_Witness == Finalized /\ NaturalDelta > 250 /\ Postfix <= 250

\* the immediates a writer of composites was given, in the order written
Elements ==
    CASE lastOp.op = "write_tag" -> <<lastOp.arg[2]>>
      [] lastOp.op = "write_array" -> lastOp.arg
      [] lastOp.op = "write_map" -> Flatten(lastOp.arg)
      [] lastOp.op = "write_cstor" -> lastOp.arg[2]
      [] OTHER -> <<>>

\* the ref byte at off decodes as Imm(Ref(o)) and reads as Value::Ref(o)
RefAt(off, o) ==
    /\ ShallowValue(off) = Ok(SvImm(ImmRef(o)))
    /\ ReadValue(off) = Ok(VRef(o))

WroteOk == lastOp # NoneYet /\ lastOp.op # "finalize" /\ lastOp.st = "ok"

\* a Ref written on its own, by write_ref or as an immediate
WroteRef ==
    /\ WroteOk
    /\ \/ lastOp.op = "write_ref"
       \/ /\ lastOp.op \in {"write_immediate", "write_immediate_or_return_pointer"}
          /\ lastOp.arg.t = "Ref"

\* a value with a Ref leaf and no leaf that read_value changes
WroteRefLeaf ==
    /\ WroteOk
    /\ lastOp.op = "write_value"
    /\ HasLeaf(lastOp.arg, "Ref")
    /\ ~HasLeaf(lastOp.arg, "Cstor0")
    /\ ~HasLeaf(lastOp.arg, "Pointer")

C6_StrictlyIncreasing ==
    \A i, j \in DOMAIN returned : i < j => returned[i].off < returned[j].off

\* a write_immediate_or_return_pointer given Pointer(p) writes nothing and
\* returns p
ReturnedPointer ==
    (WroteOk /\ lastOp.op = "write_immediate_or_return_pointer" /\ lastOp.arg.t = "Pointer")
        => /\ lastOp.ret = ToNat(lastOp.arg.p)
           /\ enc.offset = lastOp.pre
           /\ lastOp.ret < lastOp.pre

\* C6 (amended): every offset returned by a write, other than by a
\* write_immediate_or_return_pointer given a Pointer, is strictly greater
\* than all offsets returned before it; write_immediate_or_return_pointer
\* given Pointer(p) writes nothing and returns p, an earlier offset.
C6_IncreasingButPointers ==
    /\ \A i, j \in DOMAIN returned :
           (i < j /\ ~returned[j].ptr) => returned[i].off < returned[j].off
    /\ ReturnedPointer

\* a write, then a write_immediate_or_return_pointer that returned the
\* offset of that write again
C6_Witness ==
    /\ Len(returned) >= 2
    /\ returned[Len(returned)].ptr
    /\ returned[Len(returned)].off = returned[Len(returned) - 1].off

\* C7: an Immediate written by write_immediate at off is skipped by
\* Decoder::skip(off) to off + the number of bytes written, the offset just
\* after the encoded value, on both sides of the 14/15 boundary.
C7_SkipImmediate ==
    (WroteOk /\ lastOp.op = "write_immediate")
        => /\ lastOp.ret = lastOp.pre
           /\ enc.offset = Len(enc.w)
           /\ skip(build, enc.w, FromNat(lastOp.ret)) = Ok(FromNat(enc.offset))

\* a string of 15 bytes, the first length written with a LEB128 extension
C7_Witness ==
    /\ WroteOk
    /\ lastOp.op = "write_immediate"
    /\ lastOp.arg.t = "String"
    /\ Len(lastOp.arg.s) = 15
    /\ enc.offset = lastOp.pre + 17
    /\ skip(build, enc.w, FromNat(lastOp.ret)) = Ok(FromNat(enc.offset))

\* "hello" was written first on a fresh encoder, then write_i64(42), then
\* finalize with a pointer to the integer
ScenarioA ==
    /\ Finalized
    /\ Len(returned) = 2
    /\ returned[1].op = "write_string"
    /\ returned[1].arg = Hello
    /\ returned[2].op = "write_i64"
    /\ returned[2].arg = FromNat(42)
    /\ lastOp.arg = ImmPointer(FromNat(returned[2].off))

\* the entry point of the finished blob reads Int64(42)
EntryReads42 ==
    With(entrypoint(build, enc.w), LAMBDA e :
         /\ IsOk(e)
         /\ get_shallow_value(build, enc.w, e.val) = Ok(SvImm(ImmInt64(FromNat(42))))
         /\ get_i64(build, enc.w, e.val) = Ok(FromNat(42)))

\* C11 (as stated): write_string("hello") returns 0, then write_i64(42) and
\* finalize with a pointer to the integer give the bytes
\* [0x45, 'h', 'e', 'l', 'l', 'o', 0x1A, postfix], the integer on the single
\* byte 0x1A, and entrypoint() reads Int64(42).
C11_ScenarioA_OneByte ==
    ScenarioA
        => /\ returned[1].off = 0
           /\ Len(enc.w) = 8
           /\ SubSeq(enc.w, 1, 7) = <<69, 104, 101, 108, 108, 111, 26>>
           /\ EntryReads42

\* C11 (amended): write_string("hello") returns 0, write_i64(42) returns 6,
\* and after finalize with a pointer to the integer the blob is
\* [0x45, 'h', 'e', 'l', 'l', 'o', 0x1F, 0x1B, 0x01]: 42 does not fit the
\* low nibble, so it is written as low = 15 followed by LEB128(42 - 15);
\* entrypoint() returns 6 and the value there reads Int64(42).
C11_ScenarioA ==
    ScenarioA
        => /\ returned[1].off = 0
           /\ returned[2].off = 6
           /\ enc.w = <<69, 104, 101, 108, 108, 111, 31, 27, 1>>
           /\ entrypoint(build, enc.w) = Ok(FromNat(6))
           /\ EntryReads42

\* the scenario was run to its end
C11_Witness == ScenarioA /\ Len(enc.w) = 9 /\ EntryReads42

\* write_cstor has just returned normally
WroteCstor == WroteOk /\ lastOp.op = "write_cstor"

CstorIdxOf(op) == op.arg[1]

CstorArgsOf(op) == op.arg[2]

\* the offsets o as the decoder reports them
AsOffsets(slots) == [i \in 1..Len(slots) |-> FromNat(slots[i])]

\* the header write_cstor wrote at lastOp.pre: its high nibble, its index and,
\* for two arguments or more, the LEB128 count that follows the index
CstorHeader(high, n) ==
    /\ enc.w[lastOp.pre + 1] \div 16 = high
    /\ With(u64_with_low(build, enc.w, FromNat(lastOp.pre), enc.w[lastOp.pre + 1] % 16),
            LAMBDA xn :
                /\ IsOk(xn)
                /\ xn.val[1] = CstorIdxOf(lastOp)
                /\ high = 12 =>
                       leb128(enc.w, FromNat(lastOp.pre + 1 + xn.val[2])) = Ok(<<FromNat(n), 1>>)
                /\ lastOp.slots # <<>> =>
                       lastOp.slots[1]
                           = lastOp.pre + 1 + xn.val[2] + (IF high = 12 THEN 1 ELSE 0))

\* every argument read back at its offset is the immediate that was given
ArgsReadAsGiven ==
    \A i \in 1..Len(lastOp.slots) :
        ShallowValue(lastOp.slots[i]) = Ok(SvImm(CstorArgsOf(lastOp)[i]))

\* the shallow value an argument reads as: a Pointer reads as the value it
\* points to, a Variant0 as a constructor without arguments
ArgReadsAs(off, imm) ==
    IF imm.t = "Pointer" THEN ShallowValue(off) = get_shallow_value(build, enc.w, imm.p)
    ELSE IF imm.t = "Cstor0"
    THEN ShallowValue(off) = Ok(SvCstor(imm.idx, Cursor(FromNat(off), U64Zero)))
    ELSE ShallowValue(off) = Ok(SvImm(imm))

\* what write_cstor wrote and returned, by the number of arguments
CstorWritten(n) ==
    IF n = 0
    THEN /\ enc.offset = lastOp.pre
         /\ Len(enc.w) = lastOp.pre
         /\ lastOp.ret = ImmCstor0(CstorIdxOf(lastOp))
    ELSE /\ lastOp.ret = ImmPointer(FromNat(lastOp.pre))
         /\ CstorHeader(IF n = 1 THEN 11 ELSE 12, n)
         /\ Len(lastOp.slots) = n
         /\ get_cstor(build, enc.w, FromNat(lastOp.pre), <<>>)
                = Out(Ok(CstorIdxOf(lastOp)), AsOffsets(lastOp.slots))

\* finalize has been given the Variant0 that write_cstor returned
FinalizedCstor0 ==
    /\ Finalized /\ lastOp.prev # NoneYet /\ lastOp.prev.op = "write_cstor"
    /\ lastOp.prev.st = "ok" /\ lastOp.arg = lastOp.prev.ret /\ lastOp.arg.t = "Cstor0"

Cstor0ReadBack ==
    FinalizedCstor0
        => get_cstor(build, enc.w, FromNat(lastOp.pre), <<>>) = Out(Ok(CstorIdxOf(lastOp.prev)), <<>>)

RECURSIVE LeafOffsets(_, _)
\* the offsets that the leaves of kind k ("Ref" or "Pointer") of val name
LeafOffsets(val, k) ==
    CASE val.v = k -> {val.p}
      [] val.v = "Tag" -> LeafOffsets(val.child, k)
      [] val.v = "Array" -> UNION {LeafOffsets(val.items[i], k) : i \in DOMAIN val.items}
      [] val.v = "Cstor" -> UNION {LeafOffsets(val.args[i], k) : i \in DOMAIN val.args}
      [] val.v = "Map" ->
            UNION {LeafOffsets(val.pairs[i][1], k) \cup LeafOffsets(val.pairs[i][2], k) :
                       i \in DOMAIN val.pairs}
      [] OTHER -> {}

\* the offsets the calls before write_value returned
ReturnedOffsets == {FromNat(returned[i].off) : i \in DOMAIN returned}

\* where the entry after the one at p starts: a composite's header is
\* followed by its items, any other entry is stepped over by skip
StepOver(bs, p) ==
    IF bs[p + 1] \div 16 \in {6, 7, 8, 11, 12}
    THEN Bind(u64_with_low(build, bs, FromNat(p), bs[p + 1] % 16), LAMBDA xn :
              IF bs[p + 1] \div 16 = 12
              THEN Bind(leb128(bs, FromNat(p + 1 + xn[2])), LAMBDA nn :
                        Ok(p + 1 + xn[2] + nn[2]))
              ELSE Ok(p + 1 + xn[2]))
    ELSE Bind(skip(build, bs, FromNat(p)), LAMBDA nx : Ok(ToNat(nx)))

RECURSIVE Scan(_, _, _)
\* the positions below stop at which an entry starts, from p on
Scan(bs, p, stop) ==
    IF p >= stop THEN {}
    ELSE With(StepOver(bs, p), LAMBDA nx :
              IF IsOk(nx) /\ nx.val > p THEN {p} \cup Scan(bs, nx.val, stop) ELSE {p})

\* the positions of the entries of the finalized blob; its last byte is the
\* postfix
Positions == Scan(enc.w, 0, Len(enc.w) - 1)

HighOf(p) == enc.w[p + 1] \div 16

\* the offset the Ref or Pointer entry at p decodes to
TargetOf(p) ==
    Bind(u64_with_low(build, enc.w, FromNat(p), enc.w[p + 1] % 16), LAMBDA xn :
         BackTarget(build, FromNat(p), xn[1], "underflow"))

\* the Ref or Pointer at p names an offset below bound, and a Pointer names
\* the start of an entry
PointsBelow(p, bound) ==
    With(TargetOf(p), LAMBDA t :
         /\ IsOk(t)
         /\ IsSmall(t.val)
         /\ ToNat(t.val) < bound
         /\ HighOf(p) = 15 => ToNat(t.val) \in Positions)

\* the offsets of the items of the composite at c
ChildrenOf(c) ==
    CASE HighOf(c) = 6 ->
            With(get_array(build, enc.w, FromNat(c), <<>>).out, LAMBDA xs :
                 {ToNat(xs[i]) : i \in DOMAIN xs})
      [] HighOf(c) = 7 ->
            With(get_dict(build, enc.w, FromNat(c), <<>>).out, LAMBDA xs :
                 {ToNat(xs[i][1]) : i \in DOMAIN xs} \cup {ToNat(xs[i][2]) : i \in DOMAIN xs})
      [] HighOf(c) = 8 -> {ToNat(get_tag(build, enc.w, FromNat(c)).val[2])}
      [] OTHER ->
            With(get_cstor(build, enc.w, FromNat(c), <<>>).out, LAMBDA xs :
                 {ToNat(xs[i]) : i \in DOMAIN xs})

\* every Ref and Pointer points backwards, and what an item of a composite
\* points to starts before the composite does
BackwardOnly ==
    \A p \in Positions :
        /\ HighOf(p) \in {14, 15} => PointsBelow(p, p)
        /\ HighOf(p) \in {6, 7, 8, 11, 12}
               => \A o \in ChildrenOf(p) :
                      /\ o \in Positions
                      /\ HighOf(o) \in {14, 15} => PointsBelow(o, p)

\* write_value succeeded on a Value whose leaves of kind k name offsets that
\* earlier calls returned, and finalize was given what it returned
WroteThenFinalized(kinds) ==
    /\ FinalizedValue /\ Finalized /\ lastOp.prev.st = "ok"
    /\ \A k \in kinds : LeafOffsets(lastOp.prev.arg, k) \subseteq ReturnedOffsets

WroteOrReturned == WroteOk /\ lastOp.op = "write_immediate_or_return_pointer"

\* C16: write_immediate_or_return_pointer called with Pointer(p) returns p,
\* writes no byte to the sink and leaves the offset counter unchanged; called
\* with any other immediate it writes that immediate and returns the offset
\* at which it starts, the value of the offset counter before the call.
C16_PointerReturned ==
    WroteOrReturned
        => IF lastOp.arg.t = "Pointer"
           THEN /\ lastOp.ret = ToNat(lastOp.arg.p)
                /\ Len(enc.w) = lastOp.len
                /\ enc.offset = lastOp.pre
           ELSE /\ lastOp.ret = lastOp.pre
                /\ Len(enc.w) > lastOp.len
                /\ ArgReadsAs(lastOp.ret, lastOp.arg)
                /\ skip(build, enc.w, FromNat(lastOp.ret)) = Ok(FromNat(Len(enc.w)))

\* a Pointer to the string written before was handed over and came back
C16_Witness ==
    /\ WroteOrReturned /\ lastOp.arg = ImmPointer(U64Zero)
    /\ lastOp.ret = 0 /\ lastOp.pre > 1 /\ Len(enc.w) = lastOp.pre

\* write_i64 has been called
CalledWriteI64 == lastOp # NoneYet /\ lastOp.op = "write_i64"

\* the payload of the entry at off
PayloadAt(off) == u64_with_low(build, enc.w, FromNat(off), enc.w[off + 1] % 16).val[1]

\* the integer i was written at off: high nibble 1 and payload i when
\* i >= 0, high nibble 2 and payload -(i + 1) when i < 0, read back by get_i64
I64WrittenAt(off, i) ==
    /\ HighOf(off) = (IF IsNegative(i) THEN 2 ELSE 1)
    /\ PayloadAt(off) = (IF IsNegative(i) THEN SubB(U64Max, i).val ELSE i)
    /\ get_i64(build, enc.w, FromNat(off)) = Ok(i)

\* C17: for every i64 i, including i64::MIN, i64::MAX, -1 and 0,
\* write_i64(i) completes without arithmetic overflow, uses high nibble 1
\* with payload i when i >= 0 and high nibble 2 with payload -(i + 1) when
\* i < 0, and get_i64 at the returned offset yields i.
C17_I64WholeRange ==
    CalledWriteI64 => lastOp.st = "ok" /\ I64WrittenAt(lastOp.ret, lastOp.arg)

-----------------------------------------------------------------------------
(* the decoder at the limits of its integer widths: buffers whose payloads  *)
(* sit on either side of i64::MAX, of u32::MAX and of u64::MAX, and LEB128  *)
(* sequences of nine, ten and eleven bytes                                  *)

\* x + 1 on 64 bits
Succ(x) == AddC(x, FromNat(1)).val

\* an entry: the first byte (high, 15) and the LEB128 extension that make
\* the u64-with-low payload x >= 15
Entry(high, x) == first_byte_and_u64(NewEncoder, high, x).enc.w

\* LEB128 sequences: u64::MAX, a tenth group with bits above bit 63, ten
\* continuation bytes, and short ones
LebBlobs ==
    {Rep(255, 9) \o <<1>>, Rep(255, 9) \o <<2>>, Rep(255, 9) \o <<127>>,
     Rep(128, 10) \o <<1>>, Rep(128, 9) \o <<1>>, <<128, 1>>, <<127>>}

\* integers at and above i64::MAX, and with a LEB128 extension of u64::MAX
I64Blobs ==
    {Entry(h, x) : h \in {1, 2}, x \in {I64Max, Succ(I64Max), U64Max}}
        \cup {<<h * 16 + 15>> \o enc_leb128(U64Max) : h \in {1, 2}}

\* tags, lengths and variant indices at and above u32::MAX, followed by one
\* more byte, and the same for the argument count of a variant
U32Blobs ==
    {Entry(h, x) \o <<2>> : h \in {6, 7, 8, 10, 11, 12}, x \in {U32Max, Succ(U32Max)}}
        \cup {<<h * 16 + 15>> \o enc_leb128(U64Max) \o <<2>> : h \in {8, 10}}
        \cup {<<192>> \o enc_leb128(x) \o <<2>> : x \in {U32Max, Succ(U32Max)}}

\* pointers: to the entry before, one too far, and with the largest
\* distances a payload can hold
PointerBlobs ==
    {<<2, 240>>, <<2, 241>>, <<2, 240, 240>>, <<240>>,
     Entry(15, U64Max), Entry(15, SubB(U64Max, FromNat(1)).val),
     <<2>> \o Entry(15, U64Max), <<255>> \o enc_leb128(U64Max)}

EdgeBlobs == LebBlobs \cup I64Blobs \cup U32Blobs \cup PointerBlobs

InitEdge ==
    /\ build \in Builds
    /\ blob \in EdgeBlobs
    /\ call = NoneYet
    /\ lebN = U64Zero
    /\ lebBuf = <<>>
    /\ lebDec = NoneYet
    /\ enc = NewEncoder
    /\ stage = "idle"
    /\ returned = <<>>
    /\ lastOp = NoneYet

\* Decoder::leb128(off), as the tests of deser.rs call it
DecLeb128 ==
    \E off \in Offsets : Called("leb128", off, leb128(blob, FromNat(off)), <<>>)

NextEdge == NextDec \/ DecLeb128

SpecEdge == InitEdge /\ [][NextEdge]_vars

\* the 7-bit group of the i-th byte from off
Group(off, i) == blob[off + i] % 128

RECURSIVE Denotes(_, _, _, _)
\* v is the number that the groups i..n from off denote, the i-th being
\* worth 2^(7(i-1)) in the number that v is the remainder of: group after
\* group, the low seven bits of what is left of v are the group itself
Denotes(v, off, i, n) ==
    IF i > n THEN v = U64Zero
    ELSE v[1] % 128 = Group(off, i) /\ Denotes(Shr7(v), off, i + 1, n)

\* the leb128 reader returned the number its groups denote, with their count
ExactLeb(off, r) ==
    /\ IsOk(r)
    /\ r.val[2] >= 1
    /\ off + r.val[2] <= Len(blob)
    /\ blob[off + r.val[2]] < 128
    /\ Denotes(r.val[1], off, 1, r.val[2])

\* ten continuation bytes start at off
TenContinued(off) == off + 10 <= Len(blob) /\ \A i \in 1..10 : blob[off + i] >= 128

\* the buffer holds, from off on, a terminating byte or ten bytes: the reader
\* meets the end of the sequence before the end of the buffer
Whole(off) == \E n \in 1..(Len(blob) - off) : blob[off + n] < 128 \/ n >= 10

\* C18: for every byte sequence the leb128 reader either returns the exact
\* number denoted by the 7-bit groups it consumed (the sum of group_i *
\* 2^(7i)) with the count of bytes consumed, or the "out of bound for LEB128"
\* error; it returns the error whenever the shift reaches 64 before a
\* terminating byte, and never a value from which payload bits above bit 63
\* were dropped.
C18_LebExactOrError ==
    (Returned("leb128") /\ Whole(call.off))
        => /\ \/ ExactLeb(call.off, call.res)
              \/ IsErr(call.res) /\ call.res.msg = "out of bound for LEB128"
           /\ TenContinued(call.off) => IsErr(call.res)

\* the width a payload must fit: i64 for the integers, u32 for a tag number,
\* a length and a variant index
Width(high) == IF high \in {1, 2} THEN I64Max ELSE U32Max

\* the number 15 + x does not fit 64 bits
Beyond64(x) == AddC(x, FromNat(15)).carry = 1

\* the LEB128 number at off is above w - bias, or denotes more than 64 bits
LebAbove(off, w, bias) ==
    /\ Whole(off)
    /\ With(leb128(blob, FromNat(off)), LAMBDA r :
            /\ IsOk(r)
            /\ \/ ~ExactLeb(off, r)
               \/ bias = 15 /\ Beyond64(r.val[1])
               \/ Lt(w, AddC(r.val[1], FromNat(bias)).val))

\* the logical u64-with-low payload of the entry at off (its low nibble if
\* that is at most 14, else 15 + the LEB128 number that follows) exceeds w
Exceeds(off, w) == blob[off + 1] % 16 = 15 /\ LebAbove(off + 1, w, 15)

\* the argument count of the variant at off exceeds u32::MAX
CountExceeds(off) ==
    /\ HighAt(off) = 12
    /\ With(u64_with_low(build, blob, FromNat(off), blob[off + 1] % 16), LAMBDA xn :
            IsOk(xn) /\ LebAbove(off + 1 + xn.val[2], U32Max, 0))

\* get_shallow_value was called on an entry with a payload of bounded width
ShallowOnBounded ==
    /\ Returned("get_shallow_value") /\ call.off < Len(blob)
    /\ HighAt(call.off) \in {1, 2, 6, 7, 8, 10, 11, 12}

\* C19: when the logical u64-with-low payload at an offset exceeds the
\* target width (i64::MAX for high nibble 1 or 2; 2^32 - 1 for a tag number,
\* a variant index, an array or map length), get_shallow_value returns Err
\* at that offset instead of a truncated or wrapped value; it returns Err
\* too when the argument count of high nibble 12 exceeds 2^32 - 1.
C19_WidthOverflow ==
    ShallowOnBounded
        => /\ Exceeds(call.off, Width(HighAt(call.off)))
                  => IsErr(call.res) /\ call.res.off = FromNat(call.off)
           /\ CountExceeds(call.off) => IsErr(call.res)

\* C20: for every blob and every offset inside it, deref returns (Ok or
\* Err) after finitely many steps, because each Pointer that is followed
\* leads to a strictly smaller offset (target = off - delta - 1 < off for
\* every delta that can be encoded, those near 2^64 included); it never
\* loops on the same offset.
C20_DerefTerminates ==
    (Returned("deref") /\ call.off < Len(blob)
         /\ (blob[call.off + 1] % 16 = 15 => Whole(call.off + 1)))
        => call.res.tag \in {"Ok", "Err"}

-----------------------------------------------------------------------------
(* the encoder over any sink: the writers of ser.rs on a Vec<u8> and on     *)
(* slices of every size up to MaxRoom                                       *)

MaxRoom == 7

Sinks == {VecSink} \cup {SliceSink(n) : n \in 0..MaxRoom}

InitSink ==
    /\ build \in Builds
    /\ enc \in {EncoderOver(sink) : sink \in Sinks}
    /\ stage = "pre"
    /\ returned = <<>>
    /\ lastOp = NoneYet
    /\ blob = <<>>
    /\ call = NoneYet
    /\ lebN = U64Zero
    /\ lebBuf = <<>>
    /\ lebDec = NoneYet

NextSink ==
    \/ WriteNull
    \/ WriteBool
    \/ WriteI64
    \/ WriteF32
    \/ WriteF64
    \/ WriteString
    \/ WriteBytes
    \/ WriteCstor0
    \/ WriteRef
    \/ WritePointer

SpecSink == InitSink /\ [][NextSink]_vars

\* every write call so far returned Ok
AllWritesOk == lastOp # NoneYet /\ lastOp.st = "ok"

\* C21: after any sequence of encoder write calls that all returned Ok, over
\* any sink that satisfies the io::Write contract, the offset counter equals
\* the number of bytes the sink has accepted, each offset a writer returned
\* is the sink position of that value's first byte, and the counter never
\* decreases.
C21_OffsetTracksSink ==
    AllWritesOk
        => /\ enc.offset = Len(enc.w)
           /\ lastOp.ret = lastOp.len
           /\ Len(enc.w) > lastOp.len
           /\ enc.offset >= lastOp.pre
           /\ \A i \in DOMAIN returned : returned[i].off < Len(enc.w)

====
